---- MODULE Spec2Model ----
(***************************************************************************)
(* Booking assistant bot: bot.py (dialogue, pending requests, admin        *)
(* callbacks) over booking.py (Google Calendar free/busy and event         *)
(* creation).                                                              *)
(*                                                                         *)
(* Instants are minutes since 00:00 of day 0 in the configured timezone.   *)
(* A date_str is a day number, a time_str a minute of the day; the pair    *)
(* is turned into an instant by _local_dt, as strptime does.               *)
(* The program is one asyncio event loop: a handler runs without           *)
(* interruption between two awaits, and every calendar call is a plain     *)
(* synchronous call.                                                       *)
(***************************************************************************)
EXTENDS Integers, Sequences, FiniteSets, TLC

VARIABLES
    now,            \* wall clock, datetime.now(TZ)
    calendar,       \* the remote Google calendar: a set of events
    PENDING,        \* bot.PENDING: req_id -> PendingRequest
    fsm,            \* aiogram FSM storage: user -> [state, data]
    inflight,       \* admin callbacks suspended at `await callback.answer()`
    recheckFailed,  \* req_ids whose admin_confirm failed the availability re-check
    LIVE_ADMIN,     \* bot.LIVE_ADMIN: user_id -> admin_id
    FORWARDED_MAP,  \* bot.FORWARDED_MAP: (admin_id, msg_id) -> user_chat_id
    admin_state,    \* aiogram FSM storage of the admins' chats: admin -> [state, data]
    _admin_rr_idx,  \* bot._admin_rr_idx, the round-robin counter of pick_admin
    last            \* the most recent call or handler run and how it ended

relayVars == <<LIVE_ADMIN, FORWARDED_MAP, admin_state, _admin_rr_idx>>

vars == <<now, calendar, PENDING, fsm, inflight, recheckFailed, relayVars, last>>

-----------------------------------------------------------------------------
(* Program constants *)

WORK_START_HOUR == 10
WORK_END_HOUR == 20
SLOT_STEP_MIN == 30
DEFAULT_DURATION_MIN == 60
IS_TIME_AVAILABLE_DURATION == 60
DAYS_AHEAD == 7
SEARCH_HOURS == 72

MinutesPerHour == 6 * 10
MinutesPerDay == 24 * MinutesPerHour

(* Bounds of the model *)

MaxTicks == 2
MaxLimit == 2
MaxInflight == 2
MaxOkCalls == 1

TickMinutes == SLOT_STEP_MIN
At(day, hh, mm) == day * MinutesPerDay + hh * MinutesPerHour + mm
StartOfRun == At(0, 17, 30)
EarlyStartOfRun == At(0, 7, 10)
StartsOfRun == {EarlyStartOfRun, StartOfRun}

-----------------------------------------------------------------------------
(* Results of calls: a returned value, or an exception leaving the call. *)

Ret(v) == [kind |-> "ret", val |-> v]
Raise(e) == [kind |-> "raise", exc |-> e]
None == [t |-> "None"]
Link(ev) == [t |-> "link", event |-> ev]

(* ok is the number of remote calendar calls that still succeed in this   *)
(* run; the call after them raises HttpError. NeverFails: none fails.     *)
NeverFails == 0 - 1
OkChoices == {NeverFails} \cup (0 .. MaxOkCalls)
Spend(ok) == IF ok > 0 THEN ok - 1 ELSE ok

-----------------------------------------------------------------------------
(* booking.py *)

DateOf(t) == t \div MinutesPerDay
TimeOf(t) == t % MinutesPerDay

_local_dt(date_str, time_str) ==
    IF date_str >= 0 /\ time_str >= 0 /\ time_str < MinutesPerDay
    THEN Ret(date_str * MinutesPerDay + time_str)
    ELSE Raise("ValueError")

booking_is_future_slot(start_local) == start_local > now

(* The calendar service: busy intervals of the events that overlap         *)
(* [timeMin, timeMax).                                                     *)
freebusy(timeMin, timeMax) ==
    {[start |-> e.start, end |-> e.end] :
        e \in {x \in calendar : x.start < timeMax /\ x.end > timeMin}}

is_time_available_ignoring_busy(start_local, end_local, ok) ==
    IF ~booking_is_future_slot(start_local) THEN Ret(FALSE)
    ELSE IF ok = 0 THEN Raise("HttpError")
    ELSE Ret(TRUE)

is_time_available_closed_window(start_local, end_local, ok) ==
    IF ~booking_is_future_slot(start_local) THEN Ret(FALSE)
    ELSE IF ok = 0 THEN Raise("HttpError")
    ELSE Ret(freebusy(start_local - 1, end_local + 1) = {})

booking_is_time_available(start_local, end_local, ok) ==
    IF ~booking_is_future_slot(start_local) THEN Ret(FALSE)
    ELSE IF ok = 0 THEN Raise("HttpError")
    ELSE Ret(freebusy(start_local, end_local) = {})

check_slot_available_query_first(date_str, time_str, duration_minutes, ok) ==
    LET dt == _local_dt(date_str, time_str) IN
    IF dt.kind = "raise" THEN Ret(FALSE)
    ELSE IF ok = 0 THEN Raise("HttpError")
    ELSE IF ~booking_is_future_slot(dt.val) THEN Ret(FALSE)
    ELSE Ret(freebusy(dt.val, dt.val + duration_minutes) = {})

check_slot_available(date_str, time_str, duration_minutes, ok) ==
    LET dt == _local_dt(date_str, time_str) IN
    IF dt.kind = "raise" THEN Ret(FALSE)
    ELSE IF ~booking_is_future_slot(dt.val) THEN Ret(FALSE)
    ELSE booking_is_time_available(dt.val, dt.val + duration_minutes, ok)

(* Whether check_slot_available reaches the remote query. *)
QueriesCalendar(date_str, time_str) ==
    LET dt == _local_dt(date_str, time_str) IN
    dt.kind = "ret" /\ booking_is_future_slot(dt.val)

RECURSIVE next_free_scan(_, _, _, _, _, _, _)
next_free_scan(cursor, end_search, found, duration_minutes, step_minutes, limit, ok) ==
    IF ~(cursor < end_search /\ Len(found) < limit) THEN Ret(found)
    ELSE LET date_str == DateOf(cursor)
             time_str == TimeOf(cursor)
             av == check_slot_available(date_str, time_str, duration_minutes, ok)
             ok2 == IF QueriesCalendar(date_str, time_str) THEN Spend(ok) ELSE ok
         IN IF av.kind = "raise" THEN av
            ELSE next_free_scan(cursor + step_minutes, end_search,
                                IF av.val THEN Append(found, <<date_str, time_str>>)
                                ELSE found,
                                duration_minutes, step_minutes, limit, ok2)

suggest_next_free_slots(start_from_local, duration_minutes, step_minutes, limit, search_hours, ok) ==
    IF step_minutes = 0 THEN Raise("ZeroDivisionError")
    ELSE LET minute == start_from_local % MinutesPerHour
             add == (step_minutes - (minute % step_minutes)) % step_minutes
             cursor == start_from_local + add
             end_search == cursor + search_hours * MinutesPerHour
         IN next_free_scan(cursor, end_search, <<>>, duration_minutes,
                           step_minutes, limit, ok)

NewEvent(name, phone, service_name, start_local, end_local) ==
    [summary |-> <<service_name, name>>,
     description |-> [client |-> name, phone |-> phone, service |-> service_name],
     start |-> start_local,
     end |-> end_local,
     by |-> "bot"]

(* booking.create_booking: [res: what the call returns or raises,          *)
(*                          cal: the calendar after the call].             *)
create_booking(name, phone, service_name, date_str, time_str, duration_minutes, ok) ==
    LET dt == _local_dt(date_str, time_str) IN
    IF dt.kind = "raise" THEN [res |-> Ret(None), cal |-> calendar]
    ELSE IF ~booking_is_future_slot(dt.val) THEN [res |-> Ret(None), cal |-> calendar]
    ELSE LET start_local == dt.val
             end_local == start_local + duration_minutes
             av == booking_is_time_available(start_local, end_local, ok)
             event == NewEvent(name, phone, service_name, start_local, end_local)
         IN IF av.kind = "raise" THEN [res |-> av, cal |-> calendar]
            ELSE IF ~av.val THEN [res |-> Ret(None), cal |-> calendar]
            ELSE IF Spend(ok) = 0 THEN [res |-> Raise("HttpError"), cal |-> calendar]
            ELSE [res |-> Ret(Link(event)), cal |-> calendar \cup {event}]

-----------------------------------------------------------------------------
(* bot.py: time helpers and slot suggestions *)

bot_is_time_available(date_str, time_str, ok) ==
    check_slot_available(date_str, time_str, IS_TIME_AVAILABLE_DURATION, ok)

bot_is_future_slot_inclusive(date_str, time_str, grace_minutes) ==
    LET dt == _local_dt(date_str, time_str) IN
    IF dt.kind = "raise" THEN FALSE
    ELSE dt.val >= now + grace_minutes

bot_is_future_slot(date_str, time_str, grace_minutes) ==
    LET dt == _local_dt(date_str, time_str) IN
    IF dt.kind = "raise" THEN FALSE
    ELSE dt.val > now + grace_minutes

RECURSIVE suggest_scan(_, _, _, _, _, _, _)
suggest_scan(day_offset, cur, suggestions, start, days_ahead, limit, ok) ==
    LET day == DateOf(start) + day_offset
        end == At(day, WORK_END_HOUR, 0)
    IN
    IF day_offset > days_ahead THEN Ret(suggestions)
    ELSE IF ~(cur < end)
    THEN suggest_scan(day_offset + 1, At(day + 1, WORK_START_HOUR, 0), suggestions,
                      start, days_ahead, limit, ok)
    ELSE LET date_str == DateOf(cur)
             time_str == TimeOf(cur)
         IN IF ~bot_is_future_slot(date_str, time_str, 0)
            THEN suggest_scan(day_offset, cur + SLOT_STEP_MIN, suggestions,
                              start, days_ahead, limit, ok)
            ELSE LET av == bot_is_time_available(date_str, time_str, ok)
                     added == Append(suggestions, <<date_str, time_str>>)
                 IN IF av.kind = "raise" THEN av
                    ELSE IF av.val /\ Len(added) >= limit THEN Ret(added)
                    ELSE suggest_scan(day_offset, cur + SLOT_STEP_MIN,
                                      IF av.val THEN added ELSE suggestions,
                                      start, days_ahead, limit, Spend(ok))

suggest_slots_from_second_step(days_ahead, limit, duration_minutes, ok) ==
    LET start == now
        first_minutes == (((start % MinutesPerHour) \div SLOT_STEP_MIN) + 2) * SLOT_STEP_MIN
        cur == (start - (start % MinutesPerHour)) + first_minutes
    IN suggest_scan(0, cur, <<>>, start, days_ahead, limit, ok)

suggest_slots_one_more_day(days_ahead, limit, duration_minutes, ok) ==
    LET start == now
        first_minutes == (((start % MinutesPerHour) \div SLOT_STEP_MIN) + 1) * SLOT_STEP_MIN
        cur == (start - (start % MinutesPerHour)) + first_minutes
    IN suggest_scan(0, cur, <<>>, start, days_ahead + 1, limit, ok)

suggest_slots(days_ahead, limit, duration_minutes, ok) ==
    LET start == now
        first_minutes == (((start % MinutesPerHour) \div SLOT_STEP_MIN) + 1) * SLOT_STEP_MIN
        cur == (start - (start % MinutesPerHour)) + first_minutes
    IN suggest_scan(0, cur, <<>>, start, days_ahead, limit, ok)

(* create_booking_compat: Python binds the arguments before the body of    *)
(* booking.create_booking runs; a keyword that is no parameter, a missing  *)
(* required parameter or a surplus positional argument raises TypeError.   *)
CreateBookingParams == <<"name", "phone", "service_name", "date_str", "time_str", "duration_minutes">>
RequiredParams == 5

ParamNames(n) == {CreateBookingParams[i] : i \in 1 .. n}

CallKeywords(kw, ok) ==
    IF DOMAIN kw \subseteq ParamNames(Len(CreateBookingParams))
       /\ ParamNames(RequiredParams) \subseteq DOMAIN kw
    THEN create_booking(kw.name, kw.phone, kw.service_name, kw.date_str, kw.time_str,
                        IF "duration_minutes" \in DOMAIN kw THEN kw.duration_minutes
                        ELSE DEFAULT_DURATION_MIN, ok)
    ELSE [res |-> Raise("TypeError"), cal |-> calendar]

CallPositional(args, ok) ==
    IF Len(args) >= RequiredParams /\ Len(args) <= Len(CreateBookingParams)
    THEN create_booking(args[1], args[2], args[3], args[4], args[5],
                        IF Len(args) >= 6 THEN args[6] ELSE DEFAULT_DURATION_MIN, ok)
    ELSE [res |-> Raise("TypeError"), cal |-> calendar]

create_booking_compat_inserting_then_raising(client_name, phone, service_name, date_str, time_str, duration_min, comment, ok) ==
    LET start_local == date_str * MinutesPerDay + time_str
        event == NewEvent(client_name, phone, service_name, start_local,
                          start_local + duration_min)
    IN [res |-> Raise("TypeError"), cal |-> calendar \cup {event}]

create_booking_compat(client_name, phone, service_name, date_str, time_str, duration_min, comment, ok) ==
    LET first == CallKeywords([date_str |-> date_str, time_str |-> time_str,
                               service_name |-> service_name, client_name |-> client_name,
                               phone |-> phone, duration_minutes |-> duration_min,
                               comment |-> comment], ok)
        second == CallKeywords([date |-> date_str, time |-> time_str,
                                service |-> service_name, name |-> client_name,
                                phone |-> phone, duration |-> duration_min,
                                comment |-> comment], ok)
        third == CallPositional(<<date_str, time_str, service_name, client_name, phone,
                                  duration_min, comment>>, ok)
    IN IF ~(first.res.kind = "raise" /\ first.res.exc = "TypeError") THEN first
       ELSE IF ~(second.res.kind = "raise" /\ second.res.exc = "TypeError") THEN second
       ELSE third

-----------------------------------------------------------------------------
(* State of the bot *)

Users == {"u1"}
Admins == {"a1", "a2"}
ReqIds == {"r1", "r2"}
Comments == {"note"}
NotParsed == <<>>
SlotInputs == {<<0, At(0, 18, 0)>>}
NoValue == 0 - 1
Quiet == [op |-> "none"]
Idle == [kind |-> "idle"]

ExtEvent(s, e) ==
    [summary |-> <<"other">>, description |-> [client |-> "other"], start |-> s, end |-> e,
     by |-> "ext"]
ExtEvents == {ExtEvent(At(0, 18, 0), At(0, 19, 0)), ExtEvent(At(0, 19, 0), At(0, 20, 0))}
OracleEvents ==
    ExtEvents \cup {ExtEvent(At(0, 18, 15), At(0, 18, 45)), ExtEvent(At(0, 19, 30), At(0, 20, 0)),
                   ExtEvent(At(1, 18, 0), At(1, 19, 0))}
BotExtEvents == {ExtEvent(At(0, 18, 0), At(0, 19, 0))}
Handlers == [kind : {"confirm", "cancel"}, admin : Admins, req : ReqIds]

Get(data, key) == IF key \in DOMAIN data THEN data[key] ELSE NoValue
Update(data, key, value) == [k \in DOMAIN data \cup {key} |-> IF k = key THEN value ELSE data[k]]
EmptyData == [k \in {} |-> NoValue]
Cleared == [state |-> "none", data |-> EmptyData]

PendingRequest(user, data, comment) ==
    [user_id |-> user,
     chat_id |-> user,
     service_name |-> Get(data, "service_name"),
     client_name |-> Get(data, "client_name"),
     phone |-> Get(data, "phone"),
     date_str |-> Get(data, "date_str"),
     time_str |-> Get(data, "time_str"),
     duration_min |-> DEFAULT_DURATION_MIN,
     comment |-> comment,
     status |-> "PENDING",
     confirmed_by |-> "None"]

(* The live-admin relay starts empty: nobody has asked for an admin. *)
InitRelay ==
    /\ LIVE_ADMIN = [u \in {} |-> NoValue]
    /\ FORWARDED_MAP = [k \in {} |-> NoValue]
    /\ admin_state = [a \in Admins |-> Cleared]
    /\ _admin_rr_idx = 0

Init ==
    /\ now = StartOfRun
    /\ calendar = {}
    /\ PENDING = [r \in {} |-> Idle]
    /\ fsm = [u \in Users |-> Cleared]
    /\ inflight = {}
    /\ recheckFailed = {}
    /\ InitRelay
    /\ last = Quiet

-----------------------------------------------------------------------------
(* Environment: the clock and the other users of the shared calendar *)

Tick ==
    /\ \E s \in StartsOfRun : now >= s /\ now < s + MaxTicks * TickMinutes
    /\ now' = now + TickMinutes
    /\ last' = Quiet
    /\ UNCHANGED <<relayVars, calendar, PENDING, fsm, inflight, recheckFailed>>

ExternalInsert(e) ==
    /\ e \notin calendar
    /\ calendar' = calendar \cup {e}
    /\ last' = Quiet
    /\ UNCHANGED <<relayVars, now, PENDING, fsm, inflight, recheckFailed>>

ExternalDelete(e) ==
    /\ e \in calendar
    /\ calendar' = calendar \ {e}
    /\ last' = Quiet
    /\ UNCHANGED <<relayVars, now, PENDING, fsm, inflight, recheckFailed>>

-----------------------------------------------------------------------------
(* Booking dialogue (BookingFSM). A handler that raises is dropped by the  *)
(* dispatcher; what it wrote before the exception stays written.           *)

(* log_event: the line the call appends to the bookings log (the handler   *)
(* of the "bookings" logger opens the file for appending and writes one    *)
(* line per record). A handler run carries the lines it wrote in `logged`; *)
(* the file is their concatenation over the run of the bot.                *)
log_event_twice(event, req_id) ==
    <<[event |-> event, req_id |-> req_id], [event |-> event, req_id |-> req_id]>>

log_event(event, req_id) == <<[event |-> event, req_id |-> req_id]>>

Logged(op, req, out, lines) == [op |-> op, req |-> req, out |-> out, logged |-> lines]

Outcome(op, req, out) == Logged(op, req, out, <<>>)

SuggestOutcome(sg, out) == IF sg.kind = "raise" THEN sg.exc ELSE out

(* What a dialogue handler leaves to observe: the exception that ended it. *)
Faulted(op, sg) == IF sg.kind = "raise" THEN Outcome(op, "None", sg.exc) ELSE Quiet

cmd_book(u) ==
    /\ fsm' = [fsm EXCEPT ![u] = [state |-> "service", data |-> EmptyData]]
    /\ last' = Quiet
    /\ UNCHANGED <<relayVars, now, calendar, PENDING, inflight, recheckFailed>>

cb_book(u) ==
    /\ fsm' = [fsm EXCEPT ![u] = [state |-> "service", data |-> EmptyData]]
    /\ last' = Quiet
    /\ UNCHANGED <<relayVars, now, calendar, PENDING, inflight, recheckFailed>>

fsm_service(u, text) ==
    /\ fsm[u].state = "service"
    /\ fsm' = [fsm EXCEPT ![u] = [state |-> "name",
                                  data |-> Update(fsm[u].data, "service_name", text)]]
    /\ last' = Quiet
    /\ UNCHANGED <<relayVars, now, calendar, PENDING, inflight, recheckFailed>>

fsm_name(u, text) ==
    /\ fsm[u].state = "name"
    /\ fsm' = [fsm EXCEPT ![u] = [state |-> "phone",
                                  data |-> Update(fsm[u].data, "client_name", text)]]
    /\ last' = Quiet
    /\ UNCHANGED <<relayVars, now, calendar, PENDING, inflight, recheckFailed>>

fsm_phone(u, text, ok) ==
    /\ fsm[u].state = "phone"
    /\ fsm' = [fsm EXCEPT ![u] = [state |-> "datetime",
                                  data |-> Update(fsm[u].data, "phone", text)]]
    /\ last' = Faulted("fsm_phone", suggest_slots(DAYS_AHEAD, 4, DEFAULT_DURATION_MIN, ok))
    /\ UNCHANGED <<relayVars, now, calendar, PENDING, inflight, recheckFailed>>

fsm_datetime_skipping_availability(u, parsed, ok) ==
    /\ fsm[u].state = "datetime"
    /\ IF parsed = NotParsed \/ ~bot_is_future_slot(parsed[1], parsed[2], 0)
       THEN /\ last' = Faulted("fsm_datetime",
                               suggest_slots(DAYS_AHEAD, 6, DEFAULT_DURATION_MIN, ok))
            /\ fsm' = fsm
       ELSE /\ fsm' = [fsm EXCEPT ![u] =
                          [state |-> "comment",
                           data |-> Update(Update(fsm[u].data, "date_str", parsed[1]),
                                           "time_str", parsed[2])]]
            /\ last' = Quiet
    /\ UNCHANGED <<relayVars, now, calendar, PENDING, inflight, recheckFailed>>

fsm_datetime(u, parsed, ok) ==
    /\ fsm[u].state = "datetime"
    /\ LET rejected(budget) ==
               /\ last' = Faulted("fsm_datetime",
                                  suggest_slots(DAYS_AHEAD, 6, DEFAULT_DURATION_MIN, budget))
               /\ fsm' = fsm
       IN IF parsed = NotParsed THEN rejected(ok)
          ELSE IF ~bot_is_future_slot(parsed[1], parsed[2], 0) THEN rejected(ok)
          ELSE LET av == bot_is_time_available(parsed[1], parsed[2], ok) IN
               IF av.kind = "raise"
               THEN /\ last' = Faulted("fsm_datetime", av)
                    /\ fsm' = fsm
               ELSE IF ~av.val THEN rejected(Spend(ok))
               ELSE /\ fsm' = [fsm EXCEPT ![u] =
                                  [state |-> "comment",
                                   data |-> Update(Update(fsm[u].data, "date_str", parsed[1]),
                                                   "time_str", parsed[2])]]
                    /\ last' = Quiet
    /\ UNCHANGED <<relayVars, now, calendar, PENDING, inflight, recheckFailed>>

(* secrets.token_hex(5): an id not in use; which one does not matter. *)
FreshId ==
    IF "r1" \notin DOMAIN PENDING THEN "r1"
    ELSE IF "r2" \notin DOMAIN PENDING THEN "r2"
    ELSE "none"

fsm_comment(u, text, req_id) ==
    /\ fsm[u].state = "comment"
    /\ req_id = FreshId
    /\ LET comment == IF text = "-" THEN "" ELSE text
           req == PendingRequest(u, fsm[u].data, comment)
       IN PENDING' = [r \in DOMAIN PENDING \cup {req_id} |->
                         IF r = req_id THEN req ELSE PENDING[r]]
    /\ fsm' = [fsm EXCEPT ![u] = Cleared]
    /\ last' = Logged("fsm_comment", req_id, "NEW_PENDING", log_event("NEW_PENDING", req_id))
    /\ UNCHANGED <<relayVars, now, calendar, inflight, recheckFailed>>

-----------------------------------------------------------------------------
(* Live-admin relay. A handler's Telegram calls all succeed (up) or all    *)
(* raise; a call inside try/except is then skipped, any other ends the     *)
(* handler there. A client's chat id is its user id (private chats).       *)

ADMIN_CHAT_IDS == <<"a1", "a2">>

MaxMsgs == 2
PromptId == 0

(* Python keys: a tuple (admin_id, msg_id) and an int are never equal. *)
TupleKey(aid, msg_id) == [t |-> "tuple", aid |-> aid, id |-> msg_id]
IntKey(msg_id) == [t |-> "int", aid |-> "", id |-> msg_id]

Relayed(op, sender, body, reply_to, up, out, sent) ==
    [op |-> op, sender |-> sender, body |-> body, reply_to |-> reply_to, up |-> up,
     out |-> out, sent |-> sent]

Sent(to, what) == [to |-> to, what |-> what]
NothingSent == {}

Pop(dict, key) == [k \in DOMAIN dict \ {key} |-> dict[k]]
Put(dict, key, value) == [k \in DOMAIN dict \cup {key} |-> IF k = key THEN value ELSE dict[k]]

(* message_id of the next message the bot sends to admin aid that it       *)
(* records in FORWARDED_MAP.                                               *)
NextMsgId(aid) == 1 + Cardinality({k \in DOMAIN FORWARDED_MAP : k.aid = aid})

CanForward == \A aid \in Admins : NextMsgId(aid) <= MaxMsgs

(* for aid in ADMIN_CHAT_IDS: msg = await bot.send_message(aid, ...);      *)
(* FORWARDED_MAP[(aid, msg.message_id)] = chat_id, in try/except.          *)
ForwardToAdmins(chat_id, up) ==
    IF up
    THEN [k \in DOMAIN FORWARDED_MAP \cup {TupleKey(aid, NextMsgId(aid)) : aid \in Admins} |->
             IF k \in DOMAIN FORWARDED_MAP THEN FORWARDED_MAP[k] ELSE chat_id]
    ELSE FORWARDED_MAP

pick_admin == ADMIN_CHAT_IDS[(_admin_rr_idx % Len(ADMIN_CHAT_IDS)) + 1]

(* The catch-all message handler. A message taken while a dialogue is open *)
(* is left to the dialogue's handlers. In live-admin mode the message goes *)
(* to every admin. Otherwise a message with a free future date and time    *)
(* opens the dialogue at its first step with the date and time already in  *)
(* its data; any other message is answered, with the nearest slots when    *)
(* the reply speaks of slots (asks).                                       *)
handle_message(u, parsed, asks, ok) ==
    /\ fsm[u].state = "none"
    /\ IF u \in DOMAIN LIVE_ADMIN
       THEN /\ CanForward
            /\ \E up \in BOOLEAN :
                  /\ FORWARDED_MAP' = ForwardToAdmins(u, up)
                  /\ last' = Relayed("handle_message", u,
                                     IF parsed = NotParsed THEN "hi" ELSE "18:00", NoValue, up,
                                     IF up THEN "forwarded" ELSE "TelegramError",
                                     IF up THEN {Sent(aid, "client_text") : aid \in Admins}
                                     ELSE NothingSent)
            /\ fsm' = fsm
            /\ UNCHANGED <<LIVE_ADMIN, admin_state, _admin_rr_idx>>
       ELSE
       /\ UNCHANGED relayVars
       /\ LET answered(budget) ==
                  /\ last' = Faulted("handle_message",
                                     suggest_slots(DAYS_AHEAD, 6, DEFAULT_DURATION_MIN, budget))
                  /\ fsm' = fsm
          IN IF parsed = NotParsed
             THEN IF asks THEN answered(ok) ELSE last' = Quiet /\ fsm' = fsm
             ELSE IF ~bot_is_future_slot(parsed[1], parsed[2], 0) THEN answered(ok)
             ELSE LET av == bot_is_time_available(parsed[1], parsed[2], ok) IN
                  IF av.kind = "raise"
                  THEN /\ last' = Faulted("handle_message", av)
                       /\ fsm' = fsm
                  ELSE IF ~av.val THEN answered(Spend(ok))
                  ELSE /\ fsm' = [fsm EXCEPT ![u] =
                                     [state |-> "service",
                                      data |-> Update(Update(EmptyData, "date_str", parsed[1]),
                                                      "time_str", parsed[2])]]
                       /\ last' = Quiet
    /\ UNCHANGED <<now, calendar, PENDING, inflight, recheckFailed>>

-----------------------------------------------------------------------------
(* Admin callbacks. The handler is suspended once, at `await               *)
(* callback.answer()`, before it reads PENDING; from PENDING.get to the    *)
(* first notification it runs without an await.                            *)

AdminPress(a, kind, req_id) ==
    /\ req_id \in DOMAIN PENDING
    /\ Cardinality(inflight) < MaxInflight
    /\ inflight' = inflight \cup {[kind |-> kind, admin |-> a, req |-> req_id]}
    /\ last' = Quiet
    /\ UNCHANGED <<relayVars, now, calendar, PENDING, fsm, recheckFailed>>

AlreadyProcessedNever(req) == FALSE

AlreadyProcessed(req) == req.status # "PENDING"

SetStatus(req_id, status, admin_id) ==
    [PENDING EXCEPT ![req_id].status = status, ![req_id].confirmed_by = admin_id]

admin_confirm(h, ok) ==
    /\ h \in inflight
    /\ h.kind = "confirm"
    /\ inflight' = inflight \ {h}
    /\ LET admin_id == h.admin
           req_id == h.req
           done(out) == last' = Outcome("admin_confirm", req_id, out)
           wrote(event) == last' = Logged("admin_confirm", req_id, event, log_event(event, req_id))
       IN IF req_id \notin DOMAIN PENDING
          THEN done("not_found") /\ UNCHANGED <<calendar, PENDING, recheckFailed>>
          ELSE LET req == PENDING[req_id] IN
          IF AlreadyProcessed(req)
          THEN done("already") /\ UNCHANGED <<calendar, PENDING, recheckFailed>>
          ELSE IF ~bot_is_future_slot(req.date_str, req.time_str, 0)
          THEN /\ PENDING' = SetStatus(req_id, "CANCELLED", admin_id)
               /\ wrote("CANCELLED_PAST")
               /\ UNCHANGED <<calendar, recheckFailed>>
          ELSE LET av == bot_is_time_available(req.date_str, req.time_str, ok) IN
          IF av.kind = "raise"
          THEN done(av.exc) /\ UNCHANGED <<calendar, PENDING, recheckFailed>>
          ELSE IF ~av.val
          THEN /\ recheckFailed' = recheckFailed \cup {req_id}
               /\ done(SuggestOutcome(suggest_slots(DAYS_AHEAD, 6, DEFAULT_DURATION_MIN, Spend(ok)), "busy"))
               /\ UNCHANGED <<calendar, PENDING>>
          ELSE LET made == create_booking_compat(req.client_name, req.phone, req.service_name,
                                                 req.date_str, req.time_str, req.duration_min,
                                                 req.comment, Spend(ok))
               IN IF made.res.kind = "raise"
                  THEN /\ done(made.res.exc)
                       /\ calendar' = made.cal
                       /\ UNCHANGED <<PENDING, recheckFailed>>
                  ELSE /\ PENDING' = SetStatus(req_id, "CONFIRMED", admin_id)
                       /\ calendar' = made.cal
                       /\ wrote("CONFIRMED")
                       /\ UNCHANGED recheckFailed
    /\ UNCHANGED <<relayVars, now, fsm>>

admin_cancel(h) ==
    /\ h \in inflight
    /\ h.kind = "cancel"
    /\ inflight' = inflight \ {h}
    /\ LET admin_id == h.admin
           req_id == h.req
           done(out) == last' = Outcome("admin_cancel", req_id, out)
           wrote(event) == last' = Logged("admin_cancel", req_id, event, log_event(event, req_id))
       IN IF req_id \notin DOMAIN PENDING
          THEN done("not_found") /\ UNCHANGED PENDING
          ELSE IF AlreadyProcessed(PENDING[req_id])
          THEN done("already") /\ UNCHANGED PENDING
          ELSE /\ PENDING' = SetStatus(req_id, "CANCELLED", admin_id)
               /\ wrote("CANCELLED")
    /\ UNCHANGED <<relayVars, now, calendar, fsm, recheckFailed>>

Next ==
    \/ Tick
    \/ \E e \in BotExtEvents : ExternalInsert(e)
    \/ \E e \in BotExtEvents : ExternalDelete(e)
    \/ \E u \in Users : cmd_book(u)
    \/ \E u \in Users : cb_book(u)
    \/ \E u \in Users : fsm_service(u, "thai")
    \/ \E u \in Users : fsm_name(u, "Ann")
    \/ \E u \in Users, ok \in OkChoices : fsm_phone(u, "555", ok)
    \/ \E u \in Users, parsed \in SlotInputs \cup {NotParsed}, ok \in OkChoices :
          fsm_datetime(u, parsed, ok)
    \/ \E u \in Users, text \in Comments, req_id \in ReqIds : fsm_comment(u, text, req_id)
    \/ \E a \in Admins, kind \in {"confirm", "cancel"}, req_id \in ReqIds :
          AdminPress(a, kind, req_id)
    \/ \E h \in Handlers, ok \in OkChoices : admin_confirm(h, ok)
    \/ \E h \in Handlers : admin_cancel(h)

Spec == Init /\ [][Next]_vars

-----------------------------------------------------------------------------
(* The scheduling functions called on their own: booking.py's public       *)
(* functions and bot.py's helpers, with arguments from bounded sets,       *)
(* against a clock that advances and a calendar other people also edit.    *)

CallSlots == {<<0, At(0, 18, 0)>>, <<0, At(0, 18, 30)>>, <<0, At(0, 19, 0)>>, <<NoValue, 0>>}
OracleSlots == CallSlots \cup {<<1, At(0, 18, 30)>>}
CallStarts == {NoValue, At(1, 18, 30)}
CallDurations == {SLOT_STEP_MIN, DEFAULT_DURATION_MIN}
CallBookings ==
    [name : {"Ann"}, phone : {"555"}, service_name : {"thai"},
     slot : CallSlots, duration_minutes : CallDurations]

(* start_from_local is None: the scan starts from now_local(). *)
StartFrom(start_from_local) == IF start_from_local = NoValue THEN now ELSE start_from_local

Called(op, arg, ok, res) == [op |-> op, arg |-> arg, ok |-> ok, res |-> res]

(* A recorded result names what was returned by its Python type: flag for a
   bool, slots for a list of (date_str, time_str), val for Optional[str]. *)
Flag(r) == IF r.kind = "ret" THEN [kind |-> "ret", flag |-> r.val] ELSE r
Slots(r) == IF r.kind = "ret" THEN [kind |-> "ret", slots |-> r.val] ELSE r

CallCreateBooking(b, ok) ==
    LET made == create_booking(b.name, b.phone, b.service_name, b.slot[1], b.slot[2],
                               b.duration_minutes, ok)
    IN /\ calendar' = made.cal
       /\ last' = Called("create_booking", b, ok, made.res)
       /\ UNCHANGED <<relayVars, now, PENDING, fsm, inflight, recheckFailed>>

CallCheckSlotAvailable(slot, duration_minutes, ok) ==
    /\ last' = Called("check_slot_available",
                      [slot |-> slot, duration_minutes |-> duration_minutes], ok,
                      Flag(check_slot_available(slot[1], slot[2], duration_minutes, ok)))
    /\ UNCHANGED <<relayVars, now, calendar, PENDING, fsm, inflight, recheckFailed>>

CallIsTimeAvailable(slot, ok) ==
    /\ last' = Called("is_time_available",
                      [slot |-> slot, duration_minutes |-> IS_TIME_AVAILABLE_DURATION], ok,
                      Flag(bot_is_time_available(slot[1], slot[2], ok)))
    /\ UNCHANGED <<relayVars, now, calendar, PENDING, fsm, inflight, recheckFailed>>

CallSuggestSlots(limit, ok) ==
    /\ last' = Called("suggest_slots", [limit |-> limit], ok,
                      Slots(suggest_slots(DAYS_AHEAD, limit, DEFAULT_DURATION_MIN, ok)))
    /\ UNCHANGED <<relayVars, now, calendar, PENDING, fsm, inflight, recheckFailed>>

CallSuggestNextFreeSlots(start_from_local, limit, ok) ==
    /\ last' = Called("suggest_next_free_slots",
                      [limit |-> limit, start_from_local |-> start_from_local], ok,
                      Slots(suggest_next_free_slots(StartFrom(start_from_local),
                                                    DEFAULT_DURATION_MIN, SLOT_STEP_MIN,
                                                    limit, SEARCH_HOURS, ok)))
    /\ UNCHANGED <<relayVars, now, calendar, PENDING, fsm, inflight, recheckFailed>>

NextCalls ==
    \/ Tick
    \/ \E e \in ExtEvents : ExternalInsert(e)
    \/ \E e \in ExtEvents : ExternalDelete(e)
    \/ \E b \in CallBookings, ok \in OkChoices : CallCreateBooking(b, ok)
    \/ \E slot \in CallSlots, d \in CallDurations, ok \in OkChoices :
          CallCheckSlotAvailable(slot, d, ok)
    \/ \E slot \in CallSlots, ok \in OkChoices : CallIsTimeAvailable(slot, ok)
    \/ \E limit \in 0 .. MaxLimit, ok \in OkChoices : CallSuggestSlots(limit, ok)
    \/ \E limit \in 0 .. MaxLimit, ok \in OkChoices :
          CallSuggestNextFreeSlots(NoValue, limit, ok)

SpecCalls == Init /\ [][NextCalls]_vars

-----------------------------------------------------------------------------
(* The availability oracle and the slot suggesters, called at any time of  *)
(* a day that starts before or during working hours, against a calendar    *)
(* that other users fill.                                                  *)

CallGraces == {0, SLOT_STEP_MIN}

CallIsFutureSlot(slot, grace_minutes) ==
    /\ last' = Called("is_future_slot", [slot |-> slot, grace_minutes |-> grace_minutes],
                      NeverFails, Flag(Ret(bot_is_future_slot(slot[1], slot[2], grace_minutes))))
    /\ UNCHANGED <<relayVars, now, calendar, PENDING, fsm, inflight, recheckFailed>>

CallBookingIsFutureSlot(start_local) ==
    /\ last' = Called("booking_is_future_slot", [start_local |-> start_local], NeverFails,
                      Flag(Ret(booking_is_future_slot(start_local))))
    /\ UNCHANGED <<relayVars, now, calendar, PENDING, fsm, inflight, recheckFailed>>

InitOracle ==
    /\ now \in StartsOfRun
    /\ calendar = {}
    /\ PENDING = [r \in {} |-> Idle]
    /\ fsm = [u \in Users |-> Cleared]
    /\ inflight = {}
    /\ recheckFailed = {}
    /\ InitRelay
    /\ last = Quiet

NextOracle ==
    \/ Tick
    \/ \E e \in OracleEvents : ExternalInsert(e)
    \/ \E e \in OracleEvents : ExternalDelete(e)
    \/ \E slot \in OracleSlots, d \in CallDurations, ok \in OkChoices :
          CallCheckSlotAvailable(slot, d, ok)
    \/ \E slot \in OracleSlots, ok \in OkChoices : CallIsTimeAvailable(slot, ok)
    \/ \E limit \in 0 .. MaxLimit, ok \in OkChoices : CallSuggestSlots(limit, ok)
    \/ \E start_from_local \in CallStarts, limit \in 0 .. MaxLimit, ok \in OkChoices :
          CallSuggestNextFreeSlots(start_from_local, limit, ok)
    \/ \E slot \in OracleSlots, grace_minutes \in CallGraces :
          CallIsFutureSlot(slot, grace_minutes)
    \/ \E slot \in OracleSlots \ {<<NoValue, 0>>} :
          CallBookingIsFutureSlot(slot[1] * MinutesPerDay + slot[2])

SpecOracle == InitOracle /\ [][NextOracle]_vars

-----------------------------------------------------------------------------
(* Properties *)

Overlaps(e, start, end) == e.start < end /\ e.end > start
IsSuggest(op) == op \in {"suggest_slots", "suggest_next_free_slots"}
IsAdminConfirmOn(l, r) == l.op = "admin_confirm" /\ l.req = r
StartOf(req) == req.date_str * MinutesPerDay + req.time_str

(* The request is PENDING and its slot is strictly future and free. *)
Confirmable(r) ==
    /\ PENDING[r].status = "PENDING"
    /\ StartOf(PENDING[r]) > now
    /\ \A e \in calendar :
          ~Overlaps(e, StartOf(PENDING[r]), StartOf(PENDING[r]) + PENDING[r].duration_min)

\* C1: of two commits (create_booking calls) for overlapping windows at most
\* one creates an event: a call that creates an event found no event of the
\* calendar overlapping its window, so the later of two overlapping commits
\* sees the earlier one's event as busy and creates nothing.
C1_OverlappingCommitsCreateAtMostOne ==
    [][(last'.op = "create_booking" /\ last'.res.kind = "ret" /\ last'.res.val # None)
          => LET ev == last'.res.val.event
             IN /\ calendar' = calendar \cup {ev}
                /\ \A e \in calendar : ~Overlaps(e, ev.start, ev.end)]_vars

C1_SecondCommitRefused ==
    /\ last.op = "create_booking"
    /\ last.res = Ret(None)
    /\ LET dt == _local_dt(last.arg.slot[1], last.arg.slot[2])
       IN /\ dt.kind = "ret"
          /\ dt.val > now
          /\ \E e \in calendar :
                /\ e.by = "bot"
                /\ e.start # dt.val
                /\ Overlaps(e, dt.val, dt.val + last.arg.duration_minutes)
          /\ \A e \in calendar : e.by = "bot"

\* C2: create_booking inserts an event only if the start is strictly future
\* and the freebusy query of this call returned no busy interval; in every
\* other case it returns None, inserts nothing and does not raise.
C2_CreateOnlyWhenFutureAndFree ==
    [][last'.op = "create_booking"
          => LET b == last'.arg
                 dt == _local_dt(b.slot[1], b.slot[2])
                 answered == dt.kind = "ret" /\ dt.val > now /\ last'.ok # 0
                 free == answered /\ freebusy(dt.val, dt.val + b.duration_minutes) = {}
             IN /\ calendar' # calendar => free
                /\ ~free => last'.res = Ret(None) /\ calendar' = calendar]_vars

\* C3: a request that is CONFIRMED or CANCELLED keeps its status and its
\* confirmed_by for ever, and no admin_confirm or admin_cancel run on it
\* touches the calendar.
C3_TerminalStatusIsFinal ==
    [][\A r \in DOMAIN PENDING :
          PENDING[r].status # "PENDING"
             => /\ r \in DOMAIN PENDING'
                /\ PENDING'[r].status = PENDING[r].status
                /\ PENDING'[r].confirmed_by = PENDING[r].confirmed_by
                /\ (last'.op \in {"admin_confirm", "admin_cancel"} /\ last'.req = r)
                      => calendar' = calendar]_vars

C3_ConfirmAfterCancelRefused ==
    \E r \in DOMAIN PENDING :
        /\ PENDING[r].status = "CANCELLED"
        /\ last = Outcome("admin_confirm", r, "already")

C6_CommitYieldsResult ==
    [][\A r \in DOMAIN PENDING :
          (IsAdminConfirmOn(last', r) /\ Confirmable(r) /\ last'.out # "HttpError")
             => /\ last'.out = "CONFIRMED"
                /\ PENDING'[r].status = "CONFIRMED"
                /\ Cardinality(calendar' \ calendar) = 1]_vars

\* C7: the confirmation of a request with a strictly future, free slot leaves
\* in the calendar an event with the request's own fields: title service +
\* client name, description with client name, phone, service and the comment
\* when there is one, start at the request's date and time, end duration_min
\* later.
C7_EventCarriesRequestFields ==
    [][\A r \in DOMAIN PENDING :
          (IsAdminConfirmOn(last', r) /\ Confirmable(r) /\ last'.out # "HttpError")
             => \E e \in calendar' \ calendar :
                   LET req == PENDING[r] IN
                   /\ e.summary = <<req.service_name, req.client_name>>
                   /\ e.description.client = req.client_name
                   /\ e.description.phone = req.phone
                   /\ e.description.service = req.service_name
                   /\ req.comment # ""
                         => /\ "comment" \in DOMAIN e.description
                            /\ e.description.comment = req.comment
                   /\ e.start = StartOf(req)
                   /\ e.end = StartOf(req) + req.duration_min]_vars

\* C8: an availability check whose freebusy query fails returns false; the
\* failure does not leave check_slot_available / is_time_available.
C8_AvailabilityFailsClosed ==
    last.op \in {"check_slot_available", "is_time_available"}
       => /\ last.res.kind = "ret"
          /\ last.ok = 0 => last.res.flag = FALSE

IsPrefix(s, t) == Len(s) <= Len(t) /\ \A i \in 1 .. Len(s) : s[i] = t[i]
Unfailing(l) ==
    IF l.op = "suggest_slots"
    THEN suggest_slots(DAYS_AHEAD, l.arg.limit, DEFAULT_DURATION_MIN, NeverFails)
    ELSE suggest_next_free_slots(StartFrom(l.arg.start_from_local), DEFAULT_DURATION_MIN,
                                 SLOT_STEP_MIN, l.arg.limit, SEARCH_HOURS, NeverFails)

\* C9: a suggestion scan whose oracle fails returns the candidates collected
\* before the failure (a prefix of what the scan returns without the failure);
\* the failure does not leave suggest_slots / suggest_next_free_slots.
C9_SuggestSurvivesOracleFailure ==
    IsSuggest(last.op)
       => /\ last.res.kind = "ret"
          /\ IsPrefix(last.res.slots, Unfailing(last).val)

FutureAndFree(c) ==
    /\ c[1] * MinutesPerDay + c[2] > now
    /\ \A e \in calendar :
          ~Overlaps(e, c[1] * MinutesPerDay + c[2],
                    c[1] * MinutesPerDay + c[2] + DEFAULT_DURATION_MIN)

\* C10: a list returned by suggest has at most `limit` candidates, limit = 0
\* included, each strictly future and free in the calendar of that call.
C10_AtMostLimitFutureFree ==
    (IsSuggest(last.op) /\ last.res.kind = "ret")
       => /\ Len(last.res.slots) <= last.arg.limit
          /\ \A i \in 1 .. Len(last.res.slots) : FutureAndFree(last.res.slots[i])

-----------------------------------------------------------------------------
(* The worked example: a request for tomorrow 18:30, 60 minutes, against   *)
(* one busy interval tomorrow 18:00-19:00.                                 *)
TomorrowBusy == ExtEvent(At(1, 18, 0), At(1, 19, 0))
TomorrowRequest == <<1, At(0, 18, 30)>>
FirstFreeAfterRequest == <<<<1, At(0, 19, 0)>>>>

\* C11: with exactly one busy interval tomorrow 18:00-19:00, the check of a
\* request for tomorrow 18:30 (60 minutes) returns false, and the single
\* alternative (suggest with limit = 1) is tomorrow 19:00, the first free
\* grid slot at or after the request: the scan starts from the request.
C11_AlternativeStartsFromRequest ==
    calendar = {TomorrowBusy}
       => /\ (/\ last.op \in {"check_slot_available", "is_time_available"}
              /\ last.arg.slot = TomorrowRequest
              /\ last.arg.duration_minutes = DEFAULT_DURATION_MIN
              /\ last.res.kind = "ret")
                => last.res.flag = FALSE
          /\ (/\ last.op = "suggest_slots"
              /\ last.arg.limit = 1
              /\ last.res.kind = "ret")
                => last.res.slots = FirstFreeAfterRequest
          /\ (/\ last.op = "suggest_next_free_slots"
              /\ last.arg.start_from_local = At(1, 18, 30)
              /\ last.arg.limit = 1
              /\ last.res.kind = "ret")
                => last.res.slots = FirstFreeAfterRequest

InstantOf(slot) == slot[1] * MinutesPerDay + slot[2]
Parses(slot) == slot[1] >= 0 /\ slot[2] >= 0 /\ slot[2] < MinutesPerDay

\* C12: is_future(instant, grace) returns true exactly when
\* instant > now + grace: false for instant = now, false for an instant in
\* (now, now + grace], and false, not an exception, for a date and time that
\* do not parse.
C12_FutureIsStrictBeyondGrace ==
    /\ last.op = "is_future_slot"
          => /\ last.res.kind = "ret"
             /\ last.res.flag = (/\ Parses(last.arg.slot)
                                 /\ InstantOf(last.arg.slot) > now + last.arg.grace_minutes)
    /\ last.op = "booking_is_future_slot"
          => /\ last.res.kind = "ret"
             /\ last.res.flag = (last.arg.start_local > now)

C12_WithinGraceIsNotFuture ==
    /\ last.op = "is_future_slot"
    /\ last.arg.grace_minutes > 0
    /\ Parses(last.arg.slot)
    /\ InstantOf(last.arg.slot) > now
    /\ InstantOf(last.arg.slot) = now + last.arg.grace_minutes
    /\ last.res = [kind |-> "ret", flag |-> FALSE]

IsAvailabilityCheck(op) == op \in {"check_slot_available", "is_time_available"}
WindowEnd(l) == InstantOf(l.arg.slot) + l.arg.duration_minutes
Answered(l) == Parses(l.arg.slot) /\ InstantOf(l.arg.slot) > now /\ l.ok # 0

\* C13: for a strictly future start and a calendar that answers, is_free(start,
\* end) is true iff no busy interval b has b.start < end and b.end > start: an
\* interval that only touches the window at its start or its end leaves it
\* free, an interval inside it or partly overlapping it makes it occupied.
C13_FreeIffNoHalfOpenOverlap ==
    (IsAvailabilityCheck(last.op) /\ Answered(last))
       => /\ last.res.kind = "ret"
          /\ last.res.flag =
                (\A b \in calendar :
                    ~(b.start < WindowEnd(last) /\ b.end > InstantOf(last.arg.slot)))

C13_TouchingIntervalLeavesFree ==
    /\ IsAvailabilityCheck(last.op)
    /\ Answered(last)
    /\ last.res = [kind |-> "ret", flag |-> TRUE]
    /\ \E b \in calendar : b.end = InstantOf(last.arg.slot)
    /\ \E b \in calendar : b.start = WindowEnd(last)

-----------------------------------------------------------------------------
(* Calendar dates, as datetime(y, m, d) accepts them (MINYEAR = 1,
   MAXYEAR = 9999); a date is written with its year in yw digits. *)

IsLeap(y) == (y % 4 = 0 /\ y % 100 # 0) \/ y % 400 = 0
DaysInMonth(y, m) ==
    IF m = 2 THEN (IF IsLeap(y) THEN 29 ELSE 28)
    ELSE IF m \in {4, 6, 9, 11} THEN 30 ELSE 31
ValidDate(y, m, d) ==
    /\ y >= 1 /\ y <= 9999
    /\ m >= 1 /\ m <= 12
    /\ d >= 1 /\ d <= DaysInMonth(y, m)
ValidTime(hh, mm) == hh >= 0 /\ hh <= 23 /\ mm >= 0 /\ mm <= 59

Digits(n) == IF n < 10 THEN 1 ELSE IF n < 100 THEN 2 ELSE IF n < 1000 THEN 3 ELSE 4
DateStr(y, m, d, yw) == [some |-> TRUE, y |-> y, m |-> m, d |-> d, yw |-> yw]
TimeStr(hh, mm) == [some |-> TRUE, hh |-> hh, mm |-> mm]
NoDate == [some |-> FALSE, y |-> 0, m |-> 0, d |-> 0, yw |-> 0]
NoTime == [some |-> FALSE, hh |-> 0, mm |-> 0]
Parsed(date, time) == [kind |-> "ret", date |-> date, time |-> time]

(* f"{y:04d}-{m:02d}-{d:02d}": the year is padded to four digits. *)
Format04d(y, m, d) == DateStr(y, m, d, IF Digits(y) < 4 THEN 4 ELSE Digits(y))
(* dt.strftime("%Y-%m-%d"): whether %Y pads a year below 1000 depends on the
   C library (glibc does not, others do). *)
Strftime(y, m, d, padded) == DateStr(y, m, d, IF padded THEN 4 ELSE Digits(y))

(* The day the run starts on, and the date of a day of the run. *)
DateOfStart == [y |-> 2026, m |-> 2, d |-> 28]
NextDate(date) ==
    IF date.d < DaysInMonth(date.y, date.m) THEN [date EXCEPT !.d = date.d + 1]
    ELSE IF date.m < 12 THEN [date EXCEPT !.m = date.m + 1, !.d = 1]
    ELSE [y |-> date.y + 1, m |-> 1, d |-> 1]
RECURSIVE AddDays(_, _)
AddDays(date, days) == IF days = 0 THEN date ELSE AddDays(NextDate(date), days - 1)
today == AddDays(DateOfStart, now \div MinutesPerDay)

(* A message text, as the regular expressions of both parsers see it: words
   and numeric groups separated by single spaces.
     Word(w)            a word of letters; the Russian words are written in
                        Latin letters: segodnya (today), zavtra (tomorrow),
                        poslezavtra (the day after tomorrow), massazh
     Pair(a, sep, b)    "aa<sep>bb", two digits each, sep one of : .
     Dmy(d, m, y, yw)   "dd.mm.y", the year written in yw digits (2 to 4)
     Iso(y, m, d)       "yyyy-mm-dd", written with leading zeros            *)
Word(w) == [k |-> "W", w |-> w, sep |-> "", a |-> 0, b |-> 0, c |-> 0, yw |-> 0]
Pair(a, sep, b) == [k |-> "P", w |-> "", sep |-> sep, a |-> a, b |-> b, c |-> 0, yw |-> 0]
Dmy(d, m, y, yw) == [k |-> "D", w |-> "", sep |-> ".", a |-> d, b |-> m, c |-> y, yw |-> yw]
Iso(y, m, d) == [k |-> "I", w |-> "", sep |-> "-", a |-> y, b |-> m, c |-> d, yw |-> 4]

Tokens ==
    { Word("segodnya"), Word("zavtra"), Word("poslezavtra"), Word("massazh"),
      Pair(10, ":", 0), Pair(25, ":", 0), Pair(10, ":", 75),
      Pair(28, ".", 1), Pair(5, ".", 12),
      Dmy(28, 1, 27, 2),
      Iso(2026, 3, 15), Iso(999, 1, 1), Iso(2026, 2, 30) }

MaxTokens == 3

(* message.text: None for a message without text (a photo, a sticker). *)
Text(tokens) == [present |-> TRUE, tokens |-> tokens]
NoText == [present |-> FALSE, tokens |-> <<>>]

(* "key in t" for a word of the text: substring test. *)
HasSubstring(w, key) == w = key \/ (key = "zavtra" /\ w = "poslezavtra")
Mentions(tokens, key) == \E i \in 1 .. Len(tokens) : tokens[i].k = "W" /\ HasSubstring(tokens[i].w, key)

(* Where a regular expression matched: a token of the text and the numbers of
   its groups. *)
Match(x, y, z) == [found |-> TRUE, x |-> x, y |-> y, z |-> z]
NoMatch == [found |-> FALSE, x |-> 0, y |-> 0, z |-> 0]
NoYear == 0 - 1

(* _TIME_HM = \b([01]?\d|2[0-3])[:.](\d{2})\b inside one token: the hour is at
   most 23, the minutes are any two digits; "dd.mm" of a date matches too, and
   so does "mm.yy" of a date with a two-digit year. *)
TIME_HM(tok) ==
    IF tok.k = "P" THEN (IF tok.a <= 23 THEN Match(tok.a, tok.b, 0) ELSE NoMatch)
    ELSE IF tok.k = "D" THEN
        (IF tok.a <= 23 THEN Match(tok.a, tok.b, 0)
         ELSE IF tok.yw = 2 /\ tok.b <= 23 THEN Match(tok.b, tok.c, 0)
         ELSE NoMatch)
    ELSE NoMatch

(* _DATE_ISO = \b(\d{4})-(\d{2})-(\d{2})\b *)
DATE_ISO(tok) == IF tok.k = "I" THEN Match(tok.a, tok.b, tok.c) ELSE NoMatch

(* _DATE_DMY = \b(\d{1,2})[.\-/](\d{1,2})(?:[.\-/](\d{2,4}))?\b inside one
   token: groups (d, m, y); inside "yyyy-mm-dd" it matches "mm-dd". *)
DATE_DMY(tok) ==
    IF tok.k = "P" THEN (IF tok.sep = "." THEN Match(tok.a, tok.b, NoYear) ELSE NoMatch)
    ELSE IF tok.k = "D" THEN Match(tok.a, tok.b, tok.c)
    ELSE IF tok.k = "I" THEN Match(tok.b, tok.c, NoYear)
    ELSE NoMatch

(* re.search over the text: the leftmost of the tokens an expression matches
   in, 0 when there is none. *)
Leftmost(at) == IF at = {} THEN 0 ELSE CHOOSE i \in at : \A j \in at : i <= j

TwoDigitYear(y) == IF y < 100 THEN y + 2000 ELSE y

RECURSIVE dmy_scan(_, _, _, _)
dmy_scan(tokens, i, time_at, time_str) ==
    IF i > Len(tokens) THEN Parsed(NoDate, time_str)
    ELSE LET mobj == DATE_DMY(tokens[i])
             y == IF mobj.z # NoYear THEN TwoDigitYear(mobj.z) ELSE today.y
         IN IF ~mobj.found \/ i = time_at THEN dmy_scan(tokens, i + 1, time_at, time_str)
            ELSE IF ValidDate(y, mobj.y, mobj.x) THEN Parsed(Format04d(y, mobj.y, mobj.x), time_str)
            ELSE dmy_scan(tokens, i + 1, time_at, time_str)

parse_datetime_from_text(text, padded) ==
    LET t == IF text.present THEN text.tokens ELSE <<>>
        time_at == Leftmost({i \in 1 .. Len(t) : TIME_HM(t[i]).found})
    IN IF time_at = 0 THEN Parsed(NoDate, NoTime)
       ELSE LET tm == TIME_HM(t[time_at])
                time_str == TimeStr(tm.x, tm.y)
                tomorrow == NextDate(today)
                iso_at == Leftmost({i \in 1 .. Len(t) : DATE_ISO(t[i]).found})
            IN IF Mentions(t, "segodnya")
                 THEN Parsed(Strftime(today.y, today.m, today.d, padded), time_str)
               ELSE IF Mentions(t, "zavtra")
                 THEN Parsed(Strftime(tomorrow.y, tomorrow.m, tomorrow.d, padded), time_str)
               ELSE IF iso_at # 0 /\ ValidDate(t[iso_at].a, t[iso_at].b, t[iso_at].c)
                 THEN Parsed(Format04d(t[iso_at].a, t[iso_at].b, t[iso_at].c), time_str)
               ELSE dmy_scan(t, 1, time_at, time_str)

(* (\d{1,2}):(\d{2}) *)
IsClock(tok) == tok.k = "P" /\ tok.sep = ":"
FollowedByClock(tokens, i) == i < Len(tokens) /\ IsClock(tokens[i + 1])

(* 1) (\d{4})-(\d{1,2})-(\d{1,2})\s+(\d{1,2}):(\d{2}) : groups (y, mo, d) *)
IsoLike(tok) == IF tok.k = "I" THEN Match(tok.a, tok.b, tok.c) ELSE NoMatch

(* 2) (\d{1,2})[\./-](\d{1,2})(?:[\./-](\d{2,4}))?\s+(\d{1,2}):(\d{2}) : groups
   (d, mo, y_raw); in "yyyy-mm-dd" it matches from the third digit on. *)
DmyLike(tok) ==
    IF tok.k = "P" THEN (IF tok.sep = "." THEN Match(tok.a, tok.b, NoYear) ELSE NoMatch)
    ELSE IF tok.k = "D" THEN Match(tok.a, tok.b, tok.c)
    ELSE IF tok.k = "I" THEN Match(tok.a % 100, tok.b, tok.c)
    ELSE NoMatch

(* 3) \b(segodnya|zavtra)\b[^\d]*(\d{1,2}):(\d{2}) : the clock is the first
   token with a digit after the key word. *)
IsDayWord(tok) == tok.k = "W" /\ tok.w \in {"segodnya", "zavtra"}
RECURSIVE FirstWithDigit(_, _)
FirstWithDigit(tokens, i) ==
    IF i > Len(tokens) THEN 0
    ELSE IF tokens[i].k # "W" THEN i
    ELSE FirstWithDigit(tokens, i + 1)
RECURSIVE SearchDayWord(_, _)
SearchDayWord(tokens, i) ==
    IF i > Len(tokens) THEN 0
    ELSE IF /\ IsDayWord(tokens[i])
            /\ FirstWithDigit(tokens, i + 1) # 0
            /\ IsClock(tokens[FirstWithDigit(tokens, i + 1)]) THEN i
    ELSE SearchDayWord(tokens, i + 1)

(* 4) \b(\d{1,2}):(\d{2})\b *)
Clock(tok) == IF IsClock(tok) THEN Match(tok.a, tok.b, 0) ELSE NoMatch

(* datetime(y, mo, d, hh, mm) and the two strftime calls; ValueError -> None *)
FormatOrNone(y, mo, d, hh, mm, padded) ==
    IF ValidDate(y, mo, d) /\ ValidTime(hh, mm)
    THEN Parsed(Strftime(y, mo, d, padded), TimeStr(hh, mm))
    ELSE Parsed(NoDate, NoTime)

parse_date_time_ru(text, padded) ==
    IF ~text.present THEN Raise("AttributeError")
    ELSE LET t == text.tokens
             iso_at == Leftmost({i \in 1 .. Len(t) : IsoLike(t[i]).found /\ FollowedByClock(t, i)})
             dmy_at == Leftmost({i \in 1 .. Len(t) : DmyLike(t[i]).found /\ FollowedByClock(t, i)})
             word_at == SearchDayWord(t, 1)
             clock_at == Leftmost({i \in 1 .. Len(t) : Clock(t[i]).found})
             tomorrow == NextDate(today)
         IN IF iso_at # 0 THEN
                FormatOrNone(t[iso_at].a, t[iso_at].b, t[iso_at].c,
                             t[iso_at + 1].a, t[iso_at + 1].b, padded)
            ELSE IF dmy_at # 0 THEN
                LET m == DmyLike(t[dmy_at])
                    y == IF m.z # NoYear THEN TwoDigitYear(m.z) ELSE today.y
                IN FormatOrNone(y, m.y, m.x, t[dmy_at + 1].a, t[dmy_at + 1].b, padded)
            ELSE IF word_at # 0 THEN
                LET base == IF t[word_at].w = "zavtra" THEN tomorrow ELSE today
                    clock == t[FirstWithDigit(t, word_at + 1)]
                IN FormatOrNone(base.y, base.m, base.d, clock.a, clock.b, padded)
            ELSE IF clock_at # 0 THEN
                FormatOrNone(today.y, today.m, today.d, t[clock_at].a, t[clock_at].b, padded)
            ELSE Parsed(NoDate, NoTime)

-----------------------------------------------------------------------------
(* The parsers applied to incoming messages. `last` holds the message being
   received (op "message") until a parser is applied to its text. *)

Message(text) == Called("message", [text |-> text], NeverFails, [kind |-> "pending"])

ReceiveMessage ==
    /\ last' = Message(Text(<<>>))
    /\ UNCHANGED <<relayVars, now, calendar, PENDING, fsm, inflight, recheckFailed>>

(* A photo or a sticker: message.text is None. *)
ReceiveMessageWithoutText ==
    /\ last' = Message(NoText)
    /\ UNCHANGED <<relayVars, now, calendar, PENDING, fsm, inflight, recheckFailed>>

TypeToken(tok) ==
    /\ last.op = "message"
    /\ last.arg.text.present
    /\ Len(last.arg.text.tokens) < MaxTokens
    /\ last' = Message(Text(Append(last.arg.text.tokens, tok)))
    /\ UNCHANGED <<relayVars, now, calendar, PENDING, fsm, inflight, recheckFailed>>

CallParseDatetimeFromText(padded) ==
    /\ last.op = "message"
    /\ last' = Called("parse_datetime_from_text", [text |-> last.arg.text, padded |-> padded],
                      NeverFails, parse_datetime_from_text(last.arg.text, padded))
    /\ UNCHANGED <<relayVars, now, calendar, PENDING, fsm, inflight, recheckFailed>>

(* fsm_datetime: parsed = parse_date_time_ru(message.text) *)
CallParseInFsmDatetime(padded) ==
    /\ last.op = "message"
    /\ last' = Called("fsm_datetime", [text |-> last.arg.text, padded |-> padded],
                      NeverFails, parse_date_time_ru(last.arg.text, padded))
    /\ UNCHANGED <<relayVars, now, calendar, PENDING, fsm, inflight, recheckFailed>>

(* handle_message: text = (message.text or "").strip();
                   parsed = parse_date_time_ru(text) *)
CallParseInHandleMessage(padded) ==
    /\ last.op = "message"
    /\ LET text == IF last.arg.text.present THEN last.arg.text ELSE Text(<<>>)
       IN last' = Called("handle_message", [text |-> last.arg.text, padded |-> padded],
                         NeverFails, parse_date_time_ru(text, padded))
    /\ UNCHANGED <<relayVars, now, calendar, PENDING, fsm, inflight, recheckFailed>>

InitParse ==
    /\ now \in {StartOfRun, StartOfRun + MinutesPerDay}
    /\ calendar = {}
    /\ PENDING = [r \in {} |-> Idle]
    /\ fsm = [u \in Users |-> Cleared]
    /\ inflight = {}
    /\ recheckFailed = {}
    /\ InitRelay
    /\ last = Quiet

NextParse ==
    \/ ReceiveMessage
    \/ ReceiveMessageWithoutText
    \/ \E tok \in Tokens : TypeToken(tok)
    \/ \E padded \in BOOLEAN : CallParseDatetimeFromText(padded)
    \/ \E padded \in BOOLEAN : CallParseInFsmDatetime(padded)
    \/ \E padded \in BOOLEAN : CallParseInHandleMessage(padded)

SpecParse == InitParse /\ [][NextParse]_vars

IsParse(op) == op \in {"parse_datetime_from_text", "fsm_datetime", "handle_message"}
ClockOf(tok) == TimeStr(tok.a, tok.b)

IsValidDateToken(tok) == tok.k = "I" /\ ValidDate(tok.a, tok.b, tok.c)
IsValidClock(tok) == IsClock(tok) /\ ValidTime(tok.a, tok.b)
IsIsoDateTime(text) ==
    /\ text.present
    /\ Len(text.tokens) = 2
    /\ IsValidDateToken(text.tokens[1])
    /\ IsValidClock(text.tokens[2])

\* C14: for every input of the form 'YYYY-MM-DD HH:MM' with a valid calendar
\* date and a valid 24-hour time, each parser returns exactly that date,
\* written YYYY-MM-DD with a four-digit year, and exactly that time.
C14_IsoDateTimeRoundTrips ==
    (IsParse(last.op) /\ IsIsoDateTime(last.arg.text))
       => LET date == last.arg.text.tokens[1]
              clock == last.arg.text.tokens[2]
          IN last.res = Parsed(DateStr(date.a, date.b, date.c, 4), ClockOf(clock))

IsRelativeWord(tok) == tok.k = "W" /\ tok.w \in {"segodnya", "zavtra", "poslezavtra"}
FirstClock(text) == Leftmost({i \in 1 .. Len(text.tokens) : IsClock(text.tokens[i])})
IsBareTime(text) ==
    /\ text.present
    /\ \E i \in 1 .. Len(text.tokens) : IsValidClock(text.tokens[i])
    /\ \A i \in 1 .. Len(text.tokens) :
          \/ IsValidClock(text.tokens[i])
          \/ text.tokens[i].k = "W" /\ ~IsRelativeWord(text.tokens[i])

\* C15: for an input that contains a clock time and no date (no relative
\* keyword, no numeric date), each parser returns that time with the date
\* absent; it does not substitute today's date or any other date.
C15_BareTimeLeavesDateAbsent ==
    (IsParse(last.op) /\ IsBareTime(last.arg.text))
       => /\ last.res.kind = "ret"
          /\ last.res.date = NoDate
          /\ last.res.time = ClockOf(last.arg.text.tokens[FirstClock(last.arg.text)])

IsDayMonth(tok) == tok.k = "P" /\ tok.sep = "."
IsDayMonthAndTime(text) ==
    /\ text.present
    /\ Len(text.tokens) = 2
    /\ IsDayMonth(text.tokens[1])
    /\ IsValidClock(text.tokens[2])
BeforeToday(m, d) == m < today.m \/ (m = today.m /\ d < today.d)
RolledYear(m, d) == IF BeforeToday(m, d) THEN today.y + 1 ELSE today.y

\* C16: for a day/month-only date (no year given), each parser returns the
\* date in the current year when that date is today or later, and in the next
\* year when that date in the current year is strictly before today.
C16_DayMonthRollsToNextYear ==
    (/\ IsParse(last.op)
     /\ IsDayMonthAndTime(last.arg.text)
     /\ ValidDate(today.y, last.arg.text.tokens[1].b, last.arg.text.tokens[1].a))
       => LET dm == last.arg.text.tokens[1]
          IN last.res = Parsed(DateStr(RolledYear(dm.b, dm.a), dm.b, dm.a, 4),
                               ClockOf(last.arg.text.tokens[2]))

\* C17: the parsers never raise, whatever the message: absent (None) text,
\* empty text, text without digits, out-of-range numbers; fsm_datetime and
\* handle_message get absent markers back and do not fault.
C17_ParseNeverRaises == IsParse(last.op) => last.res.kind = "ret"

-----------------------------------------------------------------------------
(* The grid a suggestion scan walks, written without the scan:
   suggest_slots            day 0 from the step boundary after now to closing
                            time, each later day from opening to closing time;
   suggest_next_free_slots  search_hours from the start rounded up to a step. *)
StepsPerDay == MinutesPerDay \div SLOT_STEP_MIN
FirstStepAfter(t) == (t \div SLOT_STEP_MIN + 1) * SLOT_STEP_MIN
RoundedUp(t) == ((t + SLOT_STEP_MIN - 1) \div SLOT_STEP_MIN) * SLOT_STEP_MIN
GridOfSuggestSlots ==
    { t \in { At(DateOf(now) + d, 0, 0) + k * SLOT_STEP_MIN :
                 d \in 0 .. DAYS_AHEAD, k \in 0 .. StepsPerDay - 1 } :
        /\ t < At(DateOf(t), WORK_END_HOUR, 0)
        /\ IF DateOf(t) = DateOf(now) THEN t >= FirstStepAfter(now)
           ELSE t >= At(DateOf(t), WORK_START_HOUR, 0) }
GridOfNextFreeSlots(start_from_local) ==
    { RoundedUp(start_from_local) + k * SLOT_STEP_MIN :
         k \in 0 .. (SEARCH_HOURS * MinutesPerHour) \div SLOT_STEP_MIN - 1 }
GridOf(l) ==
    IF l.op = "suggest_slots" THEN GridOfSuggestSlots
    ELSE GridOfNextFreeSlots(StartFrom(l.arg.start_from_local))
SlotAt(t) == <<DateOf(t), TimeOf(t)>>
Returned(l) == { InstantOf(l.res.slots[i]) : i \in 1 .. Len(l.res.slots) }

\* C18: suggest returns its candidates earliest first and skips none: the list
\* is strictly increasing in time, and every grid slot of the scan range that
\* lies before the last returned candidate and is strictly future and free is
\* in the list.
C18_EarliestFirstSkipsNone ==
    (IsSuggest(last.op) /\ last.res.kind = "ret")
       => LET slots == last.res.slots IN
          /\ \A i \in 1 .. Len(slots) - 1 : InstantOf(slots[i]) < InstantOf(slots[i + 1])
          /\ \A t \in GridOf(last) :
                (/\ Len(slots) > 0
                 /\ t < InstantOf(slots[Len(slots)])
                 /\ FutureAndFree(SlotAt(t)))
                   => t \in Returned(last)

C18_BusySlotsPassedOver ==
    /\ IsSuggest(last.op)
    /\ last.res.kind = "ret"
    /\ Len(last.res.slots) >= 2
    /\ \E t \in GridOf(last) :
          /\ t > InstantOf(last.res.slots[1])
          /\ t < InstantOf(last.res.slots[2])
          /\ ~FutureAndFree(SlotAt(t))

\* C19: every candidate returned by suggest starts at or after the opening of
\* the working day (WORK_START_HOUR:00) of its date, on the first scanned day
\* too, even when the scan starts before opening time.
C19_CandidatesStartAfterOpening ==
    (IsSuggest(last.op) /\ last.res.kind = "ret")
       => \A i \in 1 .. Len(last.res.slots) :
             last.res.slots[i][2] >= WORK_START_HOUR * MinutesPerHour

\* C20: every candidate returned by suggest fits inside working hours: its
\* start plus the duration is at most WORK_END_HOUR:00 of its date.
C20_CandidatesEndBeforeClosing ==
    (IsSuggest(last.op) /\ last.res.kind = "ret")
       => \A i \in 1 .. Len(last.res.slots) :
             last.res.slots[i][2] + DEFAULT_DURATION_MIN <= WORK_END_HOUR * MinutesPerHour

-----------------------------------------------------------------------------
(* Suggestion scans with a budget of remote queries: the scan is given as many
   successful freebusy queries as its horizon has steps, the next one fails. *)

Closed == ExtEvent(At(0, 0, 0), At(DAYS_AHEAD, 0, 0))
ScanEvents == {Closed, ExtEvent(At(0, 18, 0), At(0, 19, 0))}
CallSteps == {SLOT_STEP_MIN, SLOT_STEP_MIN + SLOT_STEP_MIN \div 2}
CallDaysAhead == {0, 1}
CallSearchHours == {1, 3}

StepsOfWorkingDay == ((WORK_END_HOUR - WORK_START_HOUR) * MinutesPerHour) \div SLOT_STEP_MIN
StepsLeftToday ==
    IF FirstStepAfter(now) < At(DateOf(now), WORK_END_HOUR, 0)
    THEN (At(DateOf(now), WORK_END_HOUR, 0) - FirstStepAfter(now)) \div SLOT_STEP_MIN
    ELSE 0
HorizonOfSuggestSlots(days_ahead) == StepsLeftToday + days_ahead * StepsOfWorkingDay
HorizonOfNextFreeSlots(step_minutes, search_hours) ==
    (search_hours * MinutesPerHour + step_minutes - 1) \div step_minutes

CallSuggestSlotsDays(days_ahead, limit, ok) ==
    /\ last' = Called("suggest_slots", [limit |-> limit, days_ahead |-> days_ahead], ok,
                      Slots(suggest_slots(days_ahead, limit, DEFAULT_DURATION_MIN, ok)))
    /\ UNCHANGED <<relayVars, now, calendar, PENDING, fsm, inflight, recheckFailed>>

CallSuggestNextFreeSlotsStep(start_from_local, step_minutes, search_hours, limit, ok) ==
    /\ last' = Called("suggest_next_free_slots",
                      [limit |-> limit, start_from_local |-> start_from_local,
                       step_minutes |-> step_minutes, search_hours |-> search_hours], ok,
                      Slots(suggest_next_free_slots(StartFrom(start_from_local),
                                                    DEFAULT_DURATION_MIN, step_minutes,
                                                    limit, search_hours, ok)))
    /\ UNCHANGED <<relayVars, now, calendar, PENDING, fsm, inflight, recheckFailed>>

NextScan ==
    \/ Tick
    \/ \E e \in ScanEvents : ExternalInsert(e)
    \/ \E e \in ScanEvents : ExternalDelete(e)
    \/ \E days_ahead \in CallDaysAhead, limit \in 0 .. MaxLimit :
          CallSuggestSlotsDays(days_ahead, limit, HorizonOfSuggestSlots(days_ahead))
    \/ \E start_from_local \in CallStarts, step_minutes \in CallSteps,
          search_hours \in CallSearchHours, limit \in 0 .. MaxLimit :
          CallSuggestNextFreeSlotsStep(start_from_local, step_minutes, search_hours, limit,
                                       HorizonOfNextFreeSlots(step_minutes, search_hours))

SpecScan == Init /\ [][NextScan]_vars

\* C21: for any step of at least one minute, any limit and any calendar, a
\* calendar with no free slot included, a call of suggest terminates and
\* issues at most as many oracle queries as its scan horizon has steps
\* (days_ahead days in suggest_slots, search_hours in suggest_next_free_slots):
\* given that many successful queries it returns without asking for another.
C21_ScanStaysWithinHorizon ==
    IsSuggest(last.op) => last.res.kind = "ret"

C21_FullCalendarScannedToTheEnd ==
    /\ IsSuggest(last.op)
    /\ Closed \in calendar
    /\ last.arg.limit > 0
    /\ last.ok > 0
    /\ last.res = [kind |-> "ret", slots |-> <<>>]

NotFuture(slot) == ~Parses(slot) \/ InstantOf(slot) <= now

\* C22: the availability oracle issues no remote freebusy query when the
\* requested start is not strictly in the future: check_slot_available and
\* is_time_available return false even when any call of the calendar service
\* would fail.
C22_NoQueryForPastStart ==
    (IsAvailabilityCheck(last.op) /\ NotFuture(last.arg.slot))
       => last.res = [kind |-> "ret", flag |-> FALSE]

C22_PastStartWithServiceDown ==
    /\ IsAvailabilityCheck(last.op)
    /\ Parses(last.arg.slot)
    /\ InstantOf(last.arg.slot) <= now
    /\ last.ok = 0
    /\ last.res = [kind |-> "ret", flag |-> FALSE]

\* C23: for every input 'DD.MM HH:MM' with a valid day and month,
\* parse_datetime_from_text returns the date DD.MM of the current year and the
\* time HH:MM: the 'DD.MM' token is the date and the 'HH:MM' token the time,
\* never the 'DD.MM' token the time.
C23_LeadingDayMonthIsTheDate ==
    (/\ last.op = "parse_datetime_from_text"
     /\ IsDayMonthAndTime(last.arg.text)
     /\ ValidDate(today.y, last.arg.text.tokens[1].b, last.arg.text.tokens[1].a))
       => LET dm == last.arg.text.tokens[1]
          IN last.res = Parsed(DateStr(today.y, dm.b, dm.a, 4), ClockOf(last.arg.text.tokens[2]))

\* C24: every time value returned by a parser is a valid 24-hour clock time,
\* hour in 0..23 and minute in 0..59; '10:75' or '25:00' yields no time, never
\* a time with a field out of range.
C24_ReturnedTimeIsAClockTime ==
    (IsParse(last.op) /\ last.res.kind = "ret" /\ last.res.time.some)
       => ValidTime(last.res.time.hh, last.res.time.mm)

DaysFromToday(w) == IF w = "segodnya" THEN 0 ELSE IF w = "zavtra" THEN 1 ELSE 2
RelativeWordsAt(text) == {i \in 1 .. Len(text.tokens) : IsRelativeWord(text.tokens[i])}
IsoDatesAt(text) == {i \in 1 .. Len(text.tokens) : IsValidDateToken(text.tokens[i])}
SameDay(date, y, m, d) == date.some /\ date.y = y /\ date.m = m /\ date.d = d

\* C25: the returned date comes from the highest-priority date pattern of the
\* text: a relative keyword (today, tomorrow = +1 day, day after tomorrow = +2
\* days) wins over an ISO date, which wins over a numeric day-month(-year)
\* date.
C25_RelativeThenIsoThenNumeric ==
    (IsParse(last.op) /\ last.res.kind = "ret" /\ last.res.date.some)
       => LET text == last.arg.text
              words == RelativeWordsAt(text)
              isos == IsoDatesAt(text)
          IN /\ Cardinality(words) = 1
                  => \E i \in words :
                        LET day == AddDays(today, DaysFromToday(text.tokens[i].w))
                        IN SameDay(last.res.date, day.y, day.m, day.d)
             /\ (words = {} /\ Cardinality(isos) = 1)
                  => \E i \in isos :
                        SameDay(last.res.date, text.tokens[i].a, text.tokens[i].b, text.tokens[i].c)

-----------------------------------------------------------------------------
Decided(l) ==
    /\ l.op \in {"admin_confirm", "admin_cancel"}
    /\ l.out \in {"CONFIRMED", "CANCELLED", "CANCELLED_PAST"}

\* C26: when a request is confirmed or cancelled by an admin its entry is
\* removed from PENDING: after admin_confirm or admin_cancel has decided a
\* request id, that id is no longer a key of PENDING.
C26_DecidedRequestLeavesPending ==
    Decided(last) => last.req \notin DOMAIN PENDING

-----------------------------------------------------------------------------
(* The audit log. *)

LinesOf(l) ==
    IF l.op \in {"fsm_comment", "admin_confirm", "admin_cancel"} THEN l.logged ELSE <<>>

CreatedLines(lines, r) ==
    {i \in DOMAIN lines : lines[i] = [event |-> "NEW_PENDING", req_id |-> r]}

DecisionLines(lines, r) ==
    {i \in DOMAIN lines : /\ lines[i].req_id = r
                          /\ lines[i].event \in {"CONFIRMED", "CANCELLED", "CANCELLED_PAST"}}

EventFits(event, status) ==
    \/ event = "CONFIRMED" /\ status = "CONFIRMED"
    \/ event \in {"CANCELLED", "CANCELLED_PAST"} /\ status = "CANCELLED"

EntersPending(r) == r \notin DOMAIN PENDING /\ r \in DOMAIN PENDING'

LeavesPending(r) ==
    /\ r \in DOMAIN PENDING
    /\ r \in DOMAIN PENDING'
    /\ PENDING[r].status = "PENDING"
    /\ PENDING'[r].status # "PENDING"

LifecycleMovesForward(r) ==
    r \in DOMAIN PENDING =>
        /\ r \in DOMAIN PENDING'
        /\ PENDING[r].status # "PENDING" => PENDING'[r].status = PENDING[r].status

StepLogsItsLifecycleChange ==
    LET lines == LinesOf(last') IN
    /\ \A i \in DOMAIN lines : lines[i].req_id \in ReqIds
    /\ \A r \in ReqIds :
          /\ LifecycleMovesForward(r)
          /\ EntersPending(r) => PENDING'[r].status = "PENDING"
          /\ Cardinality(CreatedLines(lines, r)) = IF EntersPending(r) THEN 1 ELSE 0
          /\ Cardinality(DecisionLines(lines, r)) = IF LeavesPending(r) THEN 1 ELSE 0
          /\ \A i \in DecisionLines(lines, r) : EventFits(lines[i].event, PENDING'[r].status)
          /\ Len(lines) = Cardinality(CreatedLines(lines, r) \cup DecisionLines(lines, r))
                          + Cardinality({i \in DOMAIN lines : lines[i].req_id # r})

\* C27: every step of the bot appends to the audit log exactly the lifecycle
\* change it makes: one NEW_PENDING line for a request that enters PENDING,
\* one CONFIRMED / CANCELLED / CANCELLED_PAST line (matching the new status)
\* for a request whose status leaves PENDING, and no line otherwise; a
\* request never leaves PENDING's table and a decided status never changes,
\* so each request has one created line, at most one decision line, and the
\* created line comes first.
C27_LogRecordsEachLifecycleEventOnce == [][StepLogsItsLifecycleChange]_vars

C27_CreatedThenCancelledLogged ==
    /\ "r1" \in DOMAIN PENDING
    /\ PENDING["r1"].status = "CANCELLED"
    /\ last = Logged("admin_cancel", "r1", "CANCELLED",
                     <<[event |-> "CANCELLED", req_id |-> "r1"]>>)

-----------------------------------------------------------------------------
(* The booking dialogue with the catch-all handler beside it: every        *)
(* message, /book command and Book button a client can send, against a     *)
(* clock that advances and a calendar other people edit.                   *)

NextDialogue ==
    \/ Tick
    \/ \E e \in BotExtEvents : ExternalInsert(e)
    \/ \E e \in BotExtEvents : ExternalDelete(e)
    \/ \E u \in Users : cmd_book(u)
    \/ \E u \in Users : cb_book(u)
    \/ \E u \in Users : fsm_service(u, "thai")
    \/ \E u \in Users : fsm_name(u, "Ann")
    \/ \E u \in Users, ok \in OkChoices : fsm_phone(u, "555", ok)
    \/ \E u \in Users, parsed \in SlotInputs \cup {NotParsed}, ok \in OkChoices :
          fsm_datetime(u, parsed, ok)
    \/ \E u \in Users, text \in Comments, req_id \in ReqIds : fsm_comment(u, text, req_id)
    \/ \E u \in Users, parsed \in SlotInputs \cup {NotParsed}, asks \in BOOLEAN, ok \in OkChoices :
          handle_message(u, parsed, asks, ok)

SpecDialogue == Init /\ [][NextDialogue]_vars

StepsOfDialogue ==
    {<<"service", "name">>, <<"name", "phone">>, <<"phone", "datetime">>,
     <<"datetime", "comment">>, <<"comment", "none">>}

HasSlot(data) == {"date_str", "time_str"} \subseteq DOMAIN data

StartOfData(data) == data["date_str"] * MinutesPerDay + data["time_str"]

(* The slot in `data` is strictly future and no event overlaps its hour. *)
PassesBothChecks(data) ==
    /\ HasSlot(data)
    /\ StartOfData(data) > now
    /\ \A e \in calendar :
          ~Overlaps(e, StartOfData(data), StartOfData(data) + IS_TIME_AVAILABLE_DURATION)

DialogueMovesInOrder(u) ==
    /\ fsm'[u].state # fsm[u].state =>
          \/ fsm'[u].state = "service"
          \/ <<fsm[u].state, fsm'[u].state>> \in StepsOfDialogue
    /\ (fsm[u].state # "comment" /\ fsm'[u].state = "comment") =>
          /\ fsm[u].state = "datetime"
          /\ PassesBothChecks(fsm'[u].data)
    /\ (fsm[u].state = "comment" /\ fsm'[u].state = "comment") =>
          fsm'[u].data = fsm[u].data

RequestCarriesCheckedSlot(r) ==
    /\ EntersPending(r) =>
          \E u \in Users :
             /\ fsm[u].state = "comment"
             /\ HasSlot(fsm[u].data)
             /\ PENDING'[r].user_id = u
             /\ PENDING'[r].date_str = fsm[u].data["date_str"]
             /\ PENDING'[r].time_str = fsm[u].data["time_str"]
    /\ (r \in DOMAIN PENDING /\ r \in DOMAIN PENDING') =>
          /\ PENDING'[r].date_str = PENDING[r].date_str
          /\ PENDING'[r].time_str = PENDING[r].time_str

-----------------------------------------------------------------------------
(* One event per request. *)

InsertsFor(r) == IsAdminConfirmOn(last', r) /\ calendar' # calendar

InsertIsTheConfirmingStep(r) ==
    InsertsFor(r) =>
        /\ r \in DOMAIN PENDING
        /\ PENDING[r].status = "PENDING"
        /\ PENDING'[r].status = "CONFIRMED"
        /\ calendar \subseteq calendar'
        /\ Cardinality(calendar' \ calendar) = 1

-----------------------------------------------------------------------------
(* The event loop seen also while a handler is inside a calendar call.     *)
(* service.freebusy().query(...).execute() is an ordinary blocking call    *)
(* made by the coroutine itself: no await, executor or thread stands       *)
(* between the handler and the call, so the loop's only thread is inside   *)
(* it until it returns and the loop starts or resumes no other handler     *)
(* meanwhile. `last` holds the outstanding call; the clock and the other   *)
(* users of the calendar are observed between the steps of handlers.       *)

Outstanding(call, conv, input) ==
    [op |-> "remote", call |-> call, conv |-> conv, input |-> input]

LoopFree == last.op # "remote"

(* fsm_datetime up to the query of is_time_available. *)
BeginQueryInFsmDatetime(u, parsed) ==
    /\ LoopFree
    /\ fsm[u].state = "datetime"
    /\ parsed # NotParsed
    /\ bot_is_future_slot(parsed[1], parsed[2], 0)
    /\ last' = Outstanding("freebusy.query", u, parsed)
    /\ UNCHANGED <<relayVars, now, calendar, PENDING, fsm, inflight, recheckFailed>>

(* The query returns or raises and fsm_datetime runs on. *)
EndQueryInFsmDatetime(ok) ==
    /\ last.op = "remote"
    /\ fsm_datetime(last.conv, last.input, ok)

NextLoop ==
    \/ LoopFree /\ Tick
    \/ \E e \in BotExtEvents : LoopFree /\ ExternalInsert(e)
    \/ \E e \in BotExtEvents : LoopFree /\ ExternalDelete(e)
    \/ \E u \in Users : LoopFree /\ cmd_book(u)
    \/ \E u \in Users : LoopFree /\ cb_book(u)
    \/ \E u \in Users : LoopFree /\ fsm_service(u, "thai")
    \/ \E u \in Users : LoopFree /\ fsm_name(u, "Ann")
    \/ \E u \in Users, ok \in OkChoices : LoopFree /\ fsm_phone(u, "555", ok)
    \/ \E u \in Users, parsed \in SlotInputs \cup {NotParsed}, ok \in OkChoices :
          LoopFree /\ fsm_datetime(u, parsed, ok)
    \/ \E u \in Users, text \in Comments, req_id \in ReqIds :
          LoopFree /\ fsm_comment(u, text, req_id)
    \/ \E a \in Admins, kind \in {"confirm", "cancel"}, req_id \in ReqIds :
          LoopFree /\ AdminPress(a, kind, req_id)
    \/ \E h \in Handlers, ok \in OkChoices : LoopFree /\ admin_confirm(h, ok)
    \/ \E h \in Handlers : LoopFree /\ admin_cancel(h)
    \/ \E u \in Users, parsed \in SlotInputs : BeginQueryInFsmDatetime(u, parsed)
    \/ \E ok \in OkChoices : EndQueryInFsmDatetime(ok)

SpecLoop == Init /\ [][NextLoop]_vars

(* The loop runs the callback of an admin's conversation. *)
LoopResumesAdmin ==
    \E h \in Handlers :
       \/ LoopFree /\ admin_cancel(h)
       \/ \E ok \in OkChoices : LoopFree /\ admin_confirm(h, ok)

\* C28: while a freebusy query made for a client's dialogue is outstanding
\* and an admin's callback is waiting to be resumed, the loop can resume that
\* callback: the remote call does not block the loop.
C28_LoopServesOthersDuringCall ==
    (last.op = "remote" /\ inflight # {}) => ENABLED LoopResumesAdmin

-----------------------------------------------------------------------------
(* suggest_slots called for bookings of a given length. *)

BookingDurations == {DEFAULT_DURATION_MIN, DEFAULT_DURATION_MIN + SLOT_STEP_MIN}

CallSuggestSlotsFor(duration_minutes, limit, ok) ==
    /\ last' = Called("suggest_slots",
                      [limit |-> limit, duration_minutes |-> duration_minutes], ok,
                      Slots(suggest_slots(DAYS_AHEAD, limit, duration_minutes, ok)))
    /\ UNCHANGED <<relayVars, now, calendar, PENDING, fsm, inflight, recheckFailed>>

NextDuration ==
    \/ Tick
    \/ \E e \in OracleEvents : ExternalInsert(e)
    \/ \E e \in OracleEvents : ExternalDelete(e)
    \/ \E d \in BookingDurations, limit \in 1 .. MaxLimit, ok \in OkChoices :
          CallSuggestSlotsFor(d, limit, ok)

SpecDuration == InitOracle /\ [][NextDuration]_vars

\* C34: the availability checks inside suggest_slots(duration_minutes = d)
\* test the window of the booking that will be created: for every slot it
\* returns, no event of the calendar overlaps [start, start + d).
C34_SuggestedWindowIsFreeForDuration ==
    (last.op = "suggest_slots" /\ last.res.kind = "ret")
       => \A i \in 1 .. Len(last.res.slots) :
             \A e \in calendar :
                ~Overlaps(e, InstantOf(last.res.slots[i]),
                          InstantOf(last.res.slots[i]) + last.arg.duration_minutes)

-----------------------------------------------------------------------------
(* Live-admin relay: the handlers. A message is [sender, body, reply_to];  *)
(* reply_to is NoValue, or the id of a message in the sender's chat: a     *)
(* message recorded in FORWARDED_MAP, or PromptId for any other message of *)
(* the bot (the prompt of admin_pick_chat, a notice).                      *)

Bodies == {"", "hi", "/start", "/ai", "/end"}
ReplyTargets == {NoValue, PromptId} \cup (1 .. MaxMsgs)

BookingStates == {"service", "name", "phone", "datetime", "comment"}

StateOf(sender) ==
    IF sender \in Users THEN fsm[sender].state ELSE admin_state[sender].state

(* The dispatcher runs the first handler, in order of registration, whose  *)
(* filters accept the message.                                             *)
Dispatch(sender, body, reply_to) ==
    IF body = "/start" THEN "start"
    ELSE IF body = "/book" THEN "cmd_book"
    ELSE IF StateOf(sender) \in BookingStates THEN "BookingFSM"
    ELSE IF body = "/ai" THEN "cmd_ai"
    ELSE IF reply_to # NoValue /\ sender \in Admins THEN "admin_reply_to_forward"
    ELSE IF body = "/end" /\ sender \in Admins THEN "admin_end_session"
    ELSE IF body = "/end" THEN "client_end_session"
    ELSE IF StateOf(sender) = "waiting_text" THEN "admin_send_to_client"
    ELSE "handle_message"

RelayFrame == UNCHANGED <<now, calendar, PENDING, inflight, recheckFailed>>

start(sender, reply_to, up) ==
    /\ Dispatch(sender, "/start", reply_to) = "start"
    /\ last' = Relayed("start", sender, "/start", reply_to, up,
                       IF up THEN "greeted" ELSE "TelegramError",
                       IF up THEN {Sent(sender, "greeting")} ELSE NothingSent)
    /\ RelayFrame
    /\ UNCHANGED <<fsm, relayVars>>

cb_admin(u, up) ==
    /\ CanForward
    /\ IF up
       THEN /\ LIVE_ADMIN' = Put(LIVE_ADMIN, u, pick_admin)
            /\ _admin_rr_idx' = (_admin_rr_idx + 1) % Len(ADMIN_CHAT_IDS)
            /\ FORWARDED_MAP' = ForwardToAdmins(u, up)
            /\ last' = Relayed("cb_admin", u, "client:admin", NoValue, up, "connected",
                               {Sent(aid, "request") : aid \in Admins}
                                  \cup {Sent(u, "notice")})
       ELSE /\ last' = Relayed("cb_admin", u, "client:admin", NoValue, up, "TelegramError",
                               NothingSent)
            /\ UNCHANGED <<LIVE_ADMIN, _admin_rr_idx, FORWARDED_MAP>>
    /\ RelayFrame
    /\ UNCHANGED <<fsm, admin_state>>

cmd_ai(sender, reply_to, up) ==
    /\ Dispatch(sender, "/ai", reply_to) = "cmd_ai"
    /\ LIVE_ADMIN' = Pop(LIVE_ADMIN, sender)
    /\ last' = Relayed("cmd_ai", sender, "/ai", reply_to, up,
                       IF up THEN "ai_mode" ELSE "TelegramError",
                       IF up THEN {Sent(sender, "notice")} ELSE NothingSent)
    /\ RelayFrame
    /\ UNCHANGED <<fsm, FORWARDED_MAP, admin_state, _admin_rr_idx>>

admin_reply_to_forward(a, body, reply_to, up) ==
    /\ Dispatch(a, body, reply_to) = "admin_reply_to_forward"
    /\ LET done(out, sent) ==
               last' = Relayed("admin_reply_to_forward", a, body, reply_to, up, out, sent)
       IN IF IntKey(reply_to) \notin DOMAIN FORWARDED_MAP THEN done("ignored", NothingSent)
          ELSE LET target_chat_id == FORWARDED_MAP[IntKey(reply_to)] IN
               IF body = "" THEN done("ignored", NothingSent)
               ELSE IF up
               THEN done("delivered", {Sent(target_chat_id, "admin_text"), Sent(a, "notice")})
               ELSE done("TelegramError", NothingSent)
    /\ RelayFrame
    /\ UNCHANGED <<fsm, relayVars>>

admin_pick_chat(a, chat_id, up) ==
    /\ admin_state' = [admin_state EXCEPT ![a] =
                          [state |-> "waiting_text",
                           data |-> Update(admin_state[a].data, "target_chat_id", chat_id)]]
    /\ last' = Relayed("admin_pick_chat", a, "admin:replyto", NoValue, up,
                       IF up THEN "picked" ELSE "TelegramError",
                       IF up THEN {Sent(a, "prompt")} ELSE NothingSent)
    /\ RelayFrame
    /\ UNCHANGED <<fsm, LIVE_ADMIN, FORWARDED_MAP, _admin_rr_idx>>

admin_end_session(a, reply_to, up) ==
    /\ Dispatch(a, "/end", reply_to) = "admin_end_session"
    /\ LET target_chat_id == Get(admin_state[a].data, "target_chat_id")
           live == /\ "target_chat_id" \in DOMAIN admin_state[a].data
                   /\ target_chat_id \in DOMAIN LIVE_ADMIN
                   /\ LIVE_ADMIN[target_chat_id] = a
       IN /\ admin_state' = [admin_state EXCEPT ![a] = Cleared]
          /\ LIVE_ADMIN' = IF live THEN Pop(LIVE_ADMIN, target_chat_id) ELSE LIVE_ADMIN
          /\ last' = Relayed("admin_end_session", a, "/end", reply_to, up,
                             IF up THEN "ended" ELSE "TelegramError",
                             IF up
                             THEN {Sent(a, "notice")}
                                     \cup (IF live THEN {Sent(target_chat_id, "notice")} ELSE {})
                             ELSE NothingSent)
    /\ RelayFrame
    /\ UNCHANGED <<fsm, FORWARDED_MAP, _admin_rr_idx>>

client_end_session(u, up) ==
    /\ Dispatch(u, "/end", NoValue) = "client_end_session"
    /\ IF u \notin DOMAIN LIVE_ADMIN
       THEN /\ last' = Relayed("client_end_session", u, "/end", NoValue, up, "ignored",
                               NothingSent)
            /\ UNCHANGED <<fsm, LIVE_ADMIN>>
       ELSE /\ LIVE_ADMIN' = Pop(LIVE_ADMIN, u)
            /\ fsm' = [fsm EXCEPT ![u] = Cleared]
            /\ last' = Relayed("client_end_session", u, "/end", NoValue, up,
                               IF up THEN "ended" ELSE "TelegramError",
                               IF up THEN {Sent(u, "notice"), Sent(LIVE_ADMIN[u], "notice")}
                               ELSE NothingSent)
    /\ RelayFrame
    /\ UNCHANGED <<FORWARDED_MAP, admin_state, _admin_rr_idx>>

cb_admin_end_chat(a, client_chat_id, up) ==
    /\ LIVE_ADMIN' = Pop(LIVE_ADMIN, client_chat_id)
    /\ IF up
       THEN /\ admin_state' = IF admin_state[a].state = "waiting_text"
                              THEN [admin_state EXCEPT ![a] = Cleared]
                              ELSE admin_state
            /\ last' = Relayed("cb_admin_end_chat", a, "admin:endchat", NoValue, up, "ended",
                               {Sent(client_chat_id, "notice")}
                                  \cup {Sent(aid, "notice") : aid \in Admins})
       ELSE /\ admin_state' = admin_state
            /\ last' = Relayed("cb_admin_end_chat", a, "admin:endchat", NoValue, up,
                               "TelegramError", NothingSent)
    /\ RelayFrame
    /\ UNCHANGED <<fsm, FORWARDED_MAP, _admin_rr_idx>>

cb_client_end_chat(u, up) ==
    /\ IF u \notin DOMAIN LIVE_ADMIN
       THEN /\ last' = Relayed("cb_client_end_chat", u, "client:endchat", NoValue, up,
                               IF up THEN "ignored" ELSE "TelegramError", NothingSent)
            /\ UNCHANGED <<fsm, LIVE_ADMIN>>
       ELSE /\ LIVE_ADMIN' = Pop(LIVE_ADMIN, u)
            /\ fsm' = [fsm EXCEPT ![u] = Cleared]
            /\ last' = Relayed("cb_client_end_chat", u, "client:endchat", NoValue, up,
                               IF up THEN "ended" ELSE "TelegramError",
                               IF up THEN {Sent(u, "notice"), Sent(LIVE_ADMIN[u], "notice")}
                               ELSE NothingSent)
    /\ RelayFrame
    /\ UNCHANGED <<FORWARDED_MAP, admin_state, _admin_rr_idx>>

admin_send_to_client(a, body, reply_to, up) ==
    /\ Dispatch(a, body, reply_to) = "admin_send_to_client"
    /\ LET chat_id == Get(admin_state[a].data, "target_chat_id")
           done(out, sent) ==
               last' = Relayed("admin_send_to_client", a, body, reply_to, up, out, sent)
       IN IF a \notin Admins THEN done("ignored", NothingSent) /\ admin_state' = admin_state
          ELSE IF "target_chat_id" \notin DOMAIN admin_state[a].data
          THEN IF up
               THEN /\ done("no_client", {Sent(a, "notice")})
                    /\ admin_state' = [admin_state EXCEPT ![a] = Cleared]
               ELSE done("TelegramError", NothingSent) /\ admin_state' = admin_state
          ELSE /\ admin_state' = admin_state
               /\ IF body = "" THEN done("ignored", NothingSent)
                  ELSE IF up
                  THEN done("delivered", {Sent(chat_id, "admin_text"), Sent(a, "notice")})
                  ELSE done("TelegramError", NothingSent)
    /\ RelayFrame
    /\ UNCHANGED <<fsm, LIVE_ADMIN, FORWARDED_MAP, _admin_rr_idx>>

(* A message of a client that reaches the catch-all handler. *)
MessageToHandleMessage(u, body) ==
    /\ Dispatch(u, body, NoValue) = "handle_message"
    /\ \E asks \in BOOLEAN, ok \in OkChoices : handle_message(u, NotParsed, asks, ok)

NextRelay ==
    \/ \E u \in Users : cmd_book(u)
    \/ \E u \in Users, body \in Bodies \ {"/start"} : fsm_service(u, body)
    \/ \E s \in Users \cup Admins, reply_to \in ReplyTargets, up \in BOOLEAN :
          start(s, reply_to, up)
    \/ \E u \in Users, up \in BOOLEAN : cb_admin(u, up)
    \/ \E s \in Users \cup Admins, reply_to \in ReplyTargets, up \in BOOLEAN :
          cmd_ai(s, reply_to, up)
    \/ \E a \in Admins, body \in Bodies, reply_to \in ReplyTargets, up \in BOOLEAN :
          admin_reply_to_forward(a, body, reply_to, up)
    \/ \E a \in Admins, u \in Users, up \in BOOLEAN : admin_pick_chat(a, u, up)
    \/ \E a \in Admins, reply_to \in ReplyTargets, up \in BOOLEAN :
          admin_end_session(a, reply_to, up)
    \/ \E u \in Users, up \in BOOLEAN : client_end_session(u, up)
    \/ \E a \in Admins, u \in Users, up \in BOOLEAN : cb_admin_end_chat(a, u, up)
    \/ \E u \in Users, up \in BOOLEAN : cb_client_end_chat(u, up)
    \/ \E a \in Admins, body \in Bodies, reply_to \in ReplyTargets, up \in BOOLEAN :
          admin_send_to_client(a, body, reply_to, up)
    \/ \E u \in Users, body \in {"", "hi"} : MessageToHandleMessage(u, body)

SpecRelay == Init /\ [][NextRelay]_vars

-----------------------------------------------------------------------------
(* Properties of the relay. *)

AdminMessageOps ==
    {"start", "cmd_ai", "admin_reply_to_forward", "admin_end_session", "admin_send_to_client"}

ClientMessageOps == {"start", "cmd_ai", "client_end_session"}

Commands == {"/start", "/book", "/ai", "/end"}

(* `l` is the run of a handler on a text message of `sender`. *)
IsMessageOf(l, sender) ==
    /\ \/ l.op \in AdminMessageOps \cup ClientMessageOps
       \/ l.op = "handle_message" /\ l.out \in {"forwarded", "TelegramError"}
    /\ l.sender = sender

\* C31: when an admin sends a non-empty text as a Telegram reply to a message
\* the bot sent to that admin for a client and recorded in FORWARDED_MAP, and
\* Telegram accepts the bot's messages, the text is delivered to that client's
\* chat. (Stated for texts that are not commands.)
C31_ReplyToForwardedReachesClient ==
    \A a \in Admins :
       (/\ IsMessageOf(last, a)
        /\ last.up
        /\ last.body \notin Commands \cup {""}
        /\ TupleKey(a, last.reply_to) \in DOMAIN FORWARDED_MAP)
          => Sent(FORWARDED_MAP[TupleKey(a, last.reply_to)], "admin_text") \in last.sent

InReplySession(a) ==
    /\ admin_state[a].state = "waiting_text"
    /\ "target_chat_id" \in DOMAIN admin_state[a].data

\* C32: once an admin has pressed the reply button for a client chat and until
\* that admin ends the session, every non-empty text message of the admin,
\* sent as a Telegram reply or not, is handled by admin_send_to_client and,
\* when Telegram accepts the bot's messages, delivered to the selected chat.
\* (Stated for texts that are not commands.)
C32_SessionTextReachesSelectedClient ==
    [][\A a \in Admins :
          (/\ InReplySession(a)
           /\ IsMessageOf(last', a)
           /\ last'.body \notin Commands \cup {""}
           /\ last'.up)
             => /\ last'.op = "admin_send_to_client"
                /\ Sent(admin_state[a].data["target_chat_id"], "admin_text") \in last'.sent]_vars

EndChatOps == {"cmd_ai", "client_end_session", "cb_client_end_chat"}

(* An end-chat action that has run leaves the client out of LIVE_ADMIN. *)
EndChatLeavesLiveAdmin(u) ==
    /\ (last'.op \in EndChatOps /\ last'.sender = u) => u \notin DOMAIN LIVE_ADMIN'
    /\ (last'.op = "cb_admin_end_chat" /\ Sent(u, "notice") \in last'.sent)
          => u \notin DOMAIN LIVE_ADMIN'

Forwarded(l) ==
    /\ l.op = "handle_message"
    /\ l.out \in {"forwarded", "TelegramError"}
    /\ l.up => \A aid \in Admins : Sent(aid, "client_text") \in l.sent

(* The catch-all handler takes a message of u. *)
TakesMessage(u) ==
    \E parsed \in SlotInputs \cup {NotParsed}, asks \in BOOLEAN, ok \in OkChoices :
       handle_message(u, parsed, asks, ok)

(* The client u sends the end-chat command body, whatever the state of the
   booking dialogue: the first registered handler whose filters match runs. *)
SendsEndChat(u, body) ==
    \/ IsMessageOf(last', u) /\ last'.body = body
    \/ fsm_service(u, body)

(* Outside the booking dialogue a text of a client that is not a command
   reaches the catch-all handler, which forwards it to every admin chat
   while the client is in LIVE_ADMIN and answers itself otherwise; an
   end-chat handler that has run leaves the client out of LIVE_ADMIN. *)
LiveTextMessagesGoToAdmins ==
    [][\A u \in Users :
          /\ \A body \in Bodies \ Commands :
                fsm[u].state = "none" => Dispatch(u, body, NoValue) = "handle_message"
          /\ (u \in DOMAIN LIVE_ADMIN /\ TakesMessage(u))
                => Forwarded(last') /\ fsm'[u] = fsm[u]
          /\ (u \notin DOMAIN LIVE_ADMIN /\ TakesMessage(u)) => ~Forwarded(last')
          /\ EndChatLeavesLiveAdmin(u)]_vars

\* C33: while a client is in live-admin mode, every text of the client that
\* is not a command and is handled outside the booking dialogue is forwarded
\* to every admin chat and gets neither an AI reply nor the booking shortcut;
\* after any end-chat action for the client (the client's /ai or /end, the
\* client's or an admin's end-chat button) the client is no longer in
\* LIVE_ADMIN. (Stated for texts that are not commands and for the end-chat
\* actions.)
C33_LiveClientRelayedUntilEndChat ==
    [][\A u \in Users :
          /\ (u \in DOMAIN LIVE_ADMIN /\ TakesMessage(u))
                => Forwarded(last') /\ fsm'[u] = fsm[u]
          /\ (u \in DOMAIN LIVE_ADMIN /\ \E body \in {"/ai", "/end"} : SendsEndChat(u, body))
                => u \notin DOMAIN LIVE_ADMIN'
          /\ EndChatLeavesLiveAdmin(u)]_vars

====
